---- MODULE Spec2Model ----
(***************************************************************************)
(* The in-memory cart repository of try-cart                               *)
(* (internal/infrastructure/repository/cart_repository.go) run by several  *)
(* goroutines, together with the Cart values its callers hold.             *)
(*                                                                         *)
(* Every repository method is split into the steps it takes: the           *)
(* validation before the lock, the acquisition of r.mu, each read or write *)
(* of r.carts / r.userCarts, and the deferred release.  *cart.Cart values  *)
(* live in a heap of addresses, because the repository stores and returns  *)
(* pointers.                                                               *)
(***************************************************************************)
EXTENDS Integers, Sequences, FiniteSets, TLC

\* ------------------------------------------------------------------ bounds

NumGoroutines == 2
MaxClock == 2
MaxQuantity == 1
MaxCalls == 3
Int64Bits == 6
MaxOps == 3
Float64Bits == 4
DivisionPrecision == 4
MaxLen == 4

\* ------------------------------------------------------------- vocabulary

Goroutines == 0 .. (NumGoroutines - 1)
NoGoroutine == -1

Nil == 0

ErrNil == "nil"
ErrCartNotFound == "cart not found"
ErrCartExists == "cart already exists"
ErrInvalidCartID == "invalid cart ID"
ErrInvalidUserID == "invalid user ID"
ErrNilCart == "cart cannot be nil"

\* fmt.Sprintf("user%d", id) of the thread-safety test
UserName(g) == "user" \o ToString(g)

\* the user ids callers pass: the empty one and two real ones
InputUserIDs == {"", "user0", "user1"}

\* every value time.Now().UnixNano() is taken to return: a wall-clock
\* reading, which may repeat or step back between two calls
ClockValues == 1 .. MaxClock

\* fmt.Sprintf("cart_%s_%d", userID, time.Now().UnixNano())
CartIDFormatNoUser(userID, nanos) == "cart_" \o ToString(nanos)
CartIDFormat(userID, nanos) == "cart_" \o userID \o "_" \o ToString(nanos)


\* --------------------------------------------------------------- the Cart

EmptyMap == [k \in {} |-> 0]

MapPut(m, k, v) == [x \in DOMAIN m \cup {k} |-> IF x = k THEN v ELSE m[x]]
MapDelete(m, k) == [x \in DOMAIN m \ {k} |-> m[x]]

\* the values of an int64, at the width this model gives it
MinInt64 == -(2 ^ (Int64Bits - 1))
MaxInt64 == 2 ^ (Int64Bits - 1) - 1

\* the int64 an exact result is stored as: Go's integer arithmetic wraps around
WrapInt64(x) == ((x - MinInt64) % (2 ^ Int64Bits)) + MinInt64

\* float64(n) for an int64 n, at the width this model gives the significand:
\* the nearest value with Float64Bits significant bits, ties to the even one
RECURSIVE Float64Shift(_, _)
Float64Shift(n, k) ==
    IF n \div (2 ^ k) < 2 ^ Float64Bits THEN k ELSE Float64Shift(n, k + 1)

Float64(n) ==
    LET a == IF n < 0 THEN -n ELSE n
        k == Float64Shift(a, 0)
        q == a \div (2 ^ k)
        r == a % (2 ^ k)
        up == k > 0 /\ (2 * r > 2 ^ k \/ (2 * r = 2 ^ k /\ q % 2 = 1))
        m == (IF up THEN q + 1 ELSE q) * (2 ^ k)
    IN IF n < 0 THEN -m ELSE m

\* math.Ceil(x / 2) for a float64 x that holds a whole number
CeilHalf(x) == -((-x) \div 2)

\* --------------------------------------------------- decimal.Decimal

\* a decimal.Decimal is coef * 10^exp; the model keeps the value with the
\* least number of places (exp <= 0, no trailing zero in coef)
RECURSIVE Normalize(_, _)
Normalize(coef, exp) ==
    IF coef = 0 THEN [coef |-> 0, exp |-> 0]
    ELSE IF exp > 0 THEN Normalize(coef * 10, exp - 1)
    ELSE IF exp < 0 /\ coef % 10 = 0 THEN Normalize(coef \div 10, exp + 1)
    ELSE [coef |-> coef, exp |-> exp]

\* decimal.New(value, exp)
DecimalNew(value, exp) == Normalize(value, exp)

\* decimal.NewFromInt(n); decimal.NewFromFloat(x) for a whole x
NewFromInt(n) == Normalize(n, 0)

\* decimal.Zero
DecimalZero == NewFromInt(0)

Abs(n) == IF n < 0 THEN -n ELSE n
Min(a, b) == IF a < b THEN a ELSE b

\* the coefficient of d at the exponent exp <= d.exp
Rescale(d, exp) == d.coef * (10 ^ (d.exp - exp))

\* d.Add(d2), d.Sub(d2), d.Mul(d2): exact
Add(d, d2) ==
    LET e == Min(d.exp, d2.exp) IN Normalize(Rescale(d, e) + Rescale(d2, e), e)

Sub(d, d2) ==
    LET e == Min(d.exp, d2.exp) IN Normalize(Rescale(d, e) - Rescale(d2, e), e)

Mul(d, d2) == Normalize(d.coef * d2.coef, d.exp + d2.exp)

\* d.LessThan(d2)
LessThan(d, d2) ==
    LET e == Min(d.exp, d2.exp) IN Rescale(d, e) < Rescale(d2, e)

\* the digits of r / m after q, as long as the division is not exact and
\* places are left; the last place is rounded half away from zero
RECURSIVE LongDivision(_, _, _, _)
LongDivision(q, r, m, n) ==
    IF r = 0 \/ n = 0
    THEN [q |-> IF 2 * r >= m THEN q + 1 ELSE q, n |-> n]
    ELSE LongDivision(q * 10 + ((r * 10) \div m), (r * 10) % m, m, n - 1)

\* d.DivRound(d2, precision): the quotient rounded to precision places, half
\* away from zero
DivRound(d, d2, precision) ==
    LET sgn == IF (d.coef < 0) # (d2.coef < 0) THEN -1 ELSE 1
        ca == Abs(d.coef)
        cb == Abs(d2.coef)
        e == d.exp - d2.exp
        n == e + precision
    IN IF n >= 0
       THEN LET res == LongDivision(ca \div cb, ca % cb, cb, n)
            IN Normalize(sgn * res.q, e - (n - res.n))
       ELSE LET m == cb * (10 ^ (-n))
            IN Normalize(sgn * ((2 * ca + m) \div (2 * m)), -precision)

\* d.Div(d2): DivRound to decimal.DivisionPrecision places
Div(d, d2) == DivRound(d, d2, DivisionPrecision)

\* d.Round(places): half away from zero
Round(d, places) == DivRound(d, NewFromInt(1), places)

\* d.StringFixed(places) for places > 0: the rounded value with exactly that
\* many digits after the point
RECURSIVE ZeroPad(_, _)
ZeroPad(str, width) == IF Len(str) >= width THEN str ELSE ZeroPad("0" \o str, width)

StringFixedNoPad(d, places) ==
    LET r == Round(d, places)
        units == Abs(Rescale(r, -places))
    IN (IF r.coef < 0 THEN "-" ELSE "")
        \o ToString(units \div (10 ^ places)) \o "."
        \o ToString(units % (10 ^ places))

StringFixed(d, places) ==
    LET r == Round(d, places)
        units == Abs(Rescale(r, -places))
    IN (IF r.coef < 0 THEN "-" ELSE "")
        \o ToString(units \div (10 ^ places)) \o "."
        \o ZeroPad(ToString(units % (10 ^ places)), places)

\* PromotionType
PercentageDiscount == "percentageDiscount"
Buy1Get1Free == "buy1Get1Free"
TotalDiscount == "totalDiscount"

\* the nil *Promotion; no promotion of the program has this PromotionType
NilPromotion == [ID |-> "", Discount |-> 0, ProductID |-> "", PromotionType |-> "nil"]

\* cart.NewCart(): no items, no promotions, no cart-wide promotion
NewCart == [Items |-> EmptyMap, Promotion |-> EmptyMap, TotalDiscountPromotion |-> NilPromotion]

\* the product the callers of the repository add: cart.Product{ID: "A", Price: 10.00}
ProductA == [ID |-> "A", Description |-> "", Price |-> NewFromInt(10), Discount |-> 0]

\* the characters strings.TrimSpace removes
WhiteSpace == {" ", "\t", "\n", "\r"}

RECURSIVE TrimLeft(_)
TrimLeft(str) ==
    IF str = "" THEN ""
    ELSE IF Head(str) \in WhiteSpace THEN TrimLeft(Tail(str))
    ELSE str

RECURSIVE TrimRight(_)
TrimRight(str) ==
    IF str = "" THEN ""
    ELSE IF SubSeq(str, Len(str), Len(str)) \in WhiteSpace
    THEN TrimRight(SubSeq(str, 1, Len(str) - 1))
    ELSE str

\* strings.TrimSpace
TrimSpace(str) == TrimRight(TrimLeft(str))

\* strings.HasPrefix
HasPrefix(str, prefix) ==
    Len(str) >= Len(prefix) /\ SubSeq(str, 1, Len(prefix)) = prefix

ValidateDiscount(p) == p.Discount >= 0 /\ p.Discount <= 100

ValidateProductNoTrim(p) ==
    IF p.ID = "" THEN "product ID cannot be empty"
    ELSE IF LessThan(p.Price, DecimalZero) THEN "product price cannot be negative"
    ELSE IF ~ValidateDiscount(p) THEN "product discount must be between 0 and 100"
    ELSE ErrNil

ValidateProductNoID(p) ==
    IF LessThan(p.Price, DecimalZero) THEN "product price cannot be negative"
    ELSE IF ~ValidateDiscount(p) THEN "product discount must be between 0 and 100"
    ELSE ErrNil

ValidateProduct(p) ==
    IF TrimSpace(p.ID) = "" THEN "product ID cannot be empty"
    ELSE IF LessThan(p.Price, DecimalZero) THEN "product price cannot be negative"
    ELSE IF ~ValidateDiscount(p) THEN "product discount must be between 0 and 100"
    ELSE ErrNil

ValidateQuantity(q) ==
    IF q <= 0 THEN "quantity must be a positive integer" ELSE ErrNil

AddProductErrorQuantityFirst(p, q) ==
    IF ValidateQuantity(q) # ErrNil THEN "invalid quantity: " \o ValidateQuantity(q)
    ELSE IF ValidateProduct(p) # ErrNil THEN "invalid product: " \o ValidateProduct(p)
    ELSE ErrNil

\* Cart.AddProduct: the error it returns
AddProductError(p, q) ==
    IF ValidateProduct(p) # ErrNil THEN "invalid product: " \o ValidateProduct(p)
    ELSE IF ValidateQuantity(q) # ErrNil THEN "invalid quantity: " \o ValidateQuantity(q)
    ELSE ErrNil

\* Cart.AddProduct: the cart after the call (unchanged when validation fails)
AddProduct(c, p, q) ==
    IF AddProductError(p, q) # ErrNil THEN c
    ELSE IF p.ID \in DOMAIN c.Items
    THEN [c EXCEPT !.Items[p.ID].Quantity = WrapInt64(@ + q)]
    ELSE [c EXCEPT !.Items = MapPut(@, p.ID, [Product |-> p, Quantity |-> q])]

AddPromotionLastWins(c, promotion) ==
    IF promotion.PromotionType = TotalDiscount
    THEN [c EXCEPT !.TotalDiscountPromotion = promotion]
    ELSE [c EXCEPT !.Promotion = MapPut(@, promotion.ProductID, promotion)]

AddPromotionTotalKeyed(c, promotion) ==
    IF promotion.PromotionType = TotalDiscount
    THEN [c EXCEPT !.TotalDiscountPromotion = promotion,
                   !.Promotion = MapPut(@, promotion.ProductID, promotion)]
    ELSE IF promotion.ProductID \in DOMAIN c.Promotion THEN c
    ELSE [c EXCEPT !.Promotion = MapPut(@, promotion.ProductID, promotion)]

AddPromotionNoSlot(c, promotion) ==
    IF promotion.ProductID \in DOMAIN c.Promotion THEN c
    ELSE [c EXCEPT !.Promotion = MapPut(@, promotion.ProductID, promotion)]

AddPromotionNeedsItem(c, promotion) ==
    IF promotion.PromotionType = TotalDiscount
    THEN [c EXCEPT !.TotalDiscountPromotion = promotion]
    ELSE IF promotion.ProductID \in DOMAIN c.Promotion THEN c
    ELSE IF promotion.ProductID \notin DOMAIN c.Items THEN c
    ELSE [c EXCEPT !.Promotion = MapPut(@, promotion.ProductID, promotion)]

\* Cart.AddPromotion: the cart after the call
AddPromotion(c, promotion) ==
    IF promotion.PromotionType = TotalDiscount
    THEN [c EXCEPT !.TotalDiscountPromotion = promotion]
    ELSE IF promotion.ProductID \in DOMAIN c.Promotion THEN c
    ELSE [c EXCEPT !.Promotion = MapPut(@, promotion.ProductID, promotion)]

hundred == NewFromInt(100)

\* Product.GetDiscountedPrice
GetDiscountedPriceClamped(p) ==
    IF p.Discount <= 0 THEN p.Price
    ELSE IF p.Discount > 100 THEN DecimalZero
    ELSE Div(Mul(p.Price, Sub(hundred, NewFromInt(p.Discount))), hundred)

GetDiscountedPrice(p) ==
    IF p.Discount <= 0 \/ p.Discount > 100 THEN p.Price
    ELSE Div(Mul(p.Price, Sub(hundred, NewFromInt(p.Discount))), hundred)

\* Promotion.CalculatePrice
CalculatePriceDefaultList(promotion, price, qty) ==
    CASE promotion.PromotionType = PercentageDiscount ->
           Mul(Div(Mul(price, Sub(hundred, NewFromInt(promotion.Discount))), hundred),
               NewFromInt(qty))
      [] promotion.PromotionType = Buy1Get1Free ->
           Mul(price, NewFromInt(CeilHalf(Float64(qty))))
      [] OTHER -> Mul(price, NewFromInt(qty))

CalculatePrice(promotion, price, qty) ==
    CASE promotion.PromotionType = PercentageDiscount ->
            Mul(Div(Mul(price, Sub(hundred, NewFromInt(promotion.Discount))), hundred),
                NewFromInt(qty))
      [] promotion.PromotionType = Buy1Get1Free ->
            Mul(price, NewFromInt(CeilHalf(Float64(qty))))
      [] OTHER -> DecimalZero

AddLineListPrice(c, total, id) ==
    LET item == c.Items[id]
    IN IF item.Product.ID \notin DOMAIN c.Promotion
       THEN Add(total, Mul(GetDiscountedPrice(item.Product), NewFromInt(item.Quantity)))
       ELSE Add(total, CalculatePrice(c.Promotion[item.Product.ID], item.Product.Price,
                                      item.Quantity))

AddLineDiscountEach(c, total, id) ==
    LET item == c.Items[id]
        discountedPrice == GetDiscountedPrice(item.Product)
        running == IF c.TotalDiscountPromotion = NilPromotion THEN total
                   ELSE Div(Mul(total, Sub(hundred,
                                NewFromInt(c.TotalDiscountPromotion.Discount))), hundred)
    IN IF item.Product.ID \notin DOMAIN c.Promotion
       THEN Add(running, Mul(discountedPrice, NewFromInt(item.Quantity)))
       ELSE Add(running, CalculatePrice(c.Promotion[item.Product.ID], discountedPrice,
                                        item.Quantity))

\* Cart.CalculateTotal: one turn of the loop, for the item under id
AddLine(c, total, id) ==
    LET item == c.Items[id]
        discountedPrice == GetDiscountedPrice(item.Product)
    IN IF item.Product.ID \notin DOMAIN c.Promotion
       THEN Add(total, Mul(discountedPrice, NewFromInt(item.Quantity)))
       ELSE Add(total, CalculatePrice(c.Promotion[item.Product.ID], discountedPrice,
                                      item.Quantity))

\* the loop over the items in the order the map hands them out
RECURSIVE SumLines(_, _, _)
SumLines(c, total, order) ==
    IF order = <<>> THEN total
    ELSE SumLines(c, AddLine(c, total, Head(order)), Tail(order))

\* Cart.CalculateTotal when range c.Items yields the keys in this order
CalculateTotal(c, order) ==
    LET total == SumLines(c, DecimalZero, order)
    IN IF c.TotalDiscountPromotion # NilPromotion
       THEN Div(Mul(total, Sub(hundred, NewFromInt(c.TotalDiscountPromotion.Discount))),
                hundred)
       ELSE total

\* the orders range may yield the keys of a map in: every one
RangeOrders(S) ==
    {o \in [1 .. Cardinality(S) -> S] : \A i, j \in DOMAIN o : i # j => o[i] # o[j]}

\* DisplayPrice
DisplayPrice(price) == StringFixed(price, 2)

CartQuantity(c) == IF "A" \in DOMAIN c.Items THEN c.Items["A"].Quantity ELSE 0

\* ------------------------------------------------------------------ state

VARIABLES
    carts,      \* r.carts: cart id -> CartData
    userCarts,  \* r.userCarts: user id -> cart id
    mu,         \* r.mu: [w: the goroutine holding Lock, r: those holding RLock]
    heap,       \* address -> the Cart value at that address
    pc,         \* per goroutine: where it is in its call
    call,       \* per goroutine: the method called and its arguments
    loc,        \* per goroutine: the method's local cart id / user id
    res,        \* per goroutine: the values the method returns
    held,       \* per goroutine: the *cart.Cart the caller holds
    myID,       \* per goroutine: cartID of the thread-safety test body
    script,     \* per goroutine: position in the thread-safety test body
    results,    \* the results channel of the thread-safety test
    snap,       \* history: both maps as they were when the goroutine got r.mu
    winners,    \* history: per user, carts allocated since the user last had none
    issued,     \* history: the cart ids successful Creates have returned
    ncalls,     \* history: the number of calls made so far
    shoppingCart, \* the Cart of a caller that works on it alone
    lastOp,     \* the last method called on shoppingCart, its arguments and error
    ledger,     \* history: what the successful calls on shoppingCart were given
    nops        \* history: the number of calls made on shoppingCart

vars == <<carts, userCarts, mu, heap, pc, call, loc, res, held, myID, script,
          results, snap, winners, issued, ncalls, shoppingCart, lastOp, ledger, nops>>

\* the caller's own Cart, which no repository method is given
cvars == <<shoppingCart, lastOp, ledger, nops>>

\* what belongs to the callers alone
tvars == <<myID, script, results, cvars>>

\* what belongs to the repository and to its callers' goroutines
rvars == <<carts, userCarts, mu, heap, pc, call, loc, res, held, myID, script,
           results, snap, winners, issued, ncalls>>

\* the cart ids callers pass: the empty one, one no cart ever has, and the
\* ids Create has returned
InputCartIDs == {"", "non_existent"} \cup issued

\* addresses for Cart values: enough for every cart the maps and the callers hold
Addrs == 1 .. (2 * NumGoroutines + 3)

AllUserIDs == (InputUserIDs \ {""}) \cup {UserName(g) : g \in Goroutines}

NoCall == [op |-> "none", userID |-> "", cartID |-> "", cart |-> Nil]
NoRes == [id |-> "", cart |-> Nil, ok |-> FALSE, err |-> ErrNil]
NoSnap == [carts |-> EmptyMap, userCarts |-> EmptyMap]

NoProduct == [ID |-> "", Description |-> "", Price |-> DecimalZero, Discount |-> 0]
NoOp == [op |-> "none", product |-> NoProduct, quantity |-> 0,
         promotion |-> NilPromotion, err |-> ErrNil,
         price |-> DecimalZero, result |-> DecimalZero, text |-> "", valid |-> FALSE,
         nums |-> <<>>, sorted |-> <<>>]
NoLedger == [sum |-> EmptyMap, first |-> EmptyMap, promo |-> EmptyMap,
             total |-> NilPromotion, totals |-> 0]

ErrRes(e) == [NoRes EXCEPT !.err = e]

\* the addresses the garbage collector must keep: those the repository or a
\* goroutine still refers to
Reach(cartsV, heldV, callV, resV) ==
    ({cartsV[k].Cart : k \in DOMAIN cartsV}
        \cup {heldV[g] : g \in Goroutines}
        \cup {callV[g].cart : g \in Goroutines}
        \cup {resV[g].cart : g \in Goroutines}) \ {Nil}

Live == Reach(carts, held, call, res)

\* memory no one refers to is reclaimed; a reclaimed address reads as a new Cart
Collect(h, live) == [a \in Addrs |-> IF a \in live THEN h[a] ELSE NewCart]

FreshAddr == CHOOSE a \in Addrs \ Live : \A b \in Addrs \ Live : a <= b

\* --------------------------------------------------------------- r.mu

\* which side of the sync.RWMutex a method takes
LockModeAllShared(op) == "R"
LockModeCreateShared(op) == IF op \in {"Update", "Delete"} THEN "W" ELSE "R"
LockModeDeleteShared(op) == IF op \in {"Create", "Update"} THEN "W" ELSE "R"
LockMode(op) == IF op \in {"Create", "Update", "Delete"} THEN "W" ELSE "R"

\* the first statement after the lock
FirstStep(op) ==
    IF op \in {"Create", "Update", "Delete"} THEN "check"
    ELSE IF op = "GetByUserID" THEN "index"
    ELSE "read"

ValidateNilCartFirst(c) ==
    CASE c.op \in {"Create", "GetByUserID"} ->
            IF c.userID = "" THEN ErrInvalidUserID ELSE ErrNil
      [] c.op = "Update" ->
            IF c.cart = Nil THEN ErrNilCart
            ELSE IF c.cartID = "" THEN ErrInvalidCartID
            ELSE ErrNil
      [] OTHER -> IF c.cartID = "" THEN ErrInvalidCartID ELSE ErrNil

ValidateExistsLax(c) ==
    CASE c.op \in {"Create", "GetByUserID"} ->
            IF c.userID = "" THEN ErrInvalidUserID ELSE ErrNil
      [] c.op = "Update" ->
            IF c.cartID = "" THEN ErrInvalidCartID
            ELSE IF c.cart = Nil THEN ErrNilCart
            ELSE ErrNil
      [] c.op = "Exists" -> ErrNil
      [] OTHER -> IF c.cartID = "" THEN ErrInvalidCartID ELSE ErrNil

\* the checks a method makes before it takes the lock
Validate(c) ==
    CASE c.op = "Create" -> IF c.userID = "" THEN ErrInvalidUserID ELSE ErrNil
      [] c.op = "GetByUserID" -> IF c.userID = "" THEN ErrInvalidUserID ELSE ErrNil
      [] c.op = "Update" ->
            IF c.cartID = "" THEN ErrInvalidCartID
            ELSE IF c.cart = Nil THEN ErrNilCart
            ELSE ErrNil
      [] OTHER -> IF c.cartID = "" THEN ErrInvalidCartID ELSE ErrNil

InCS(g) == pc[g] \in {"check", "store", "index", "read", "unlock"}

\* a return is a step of the caller alone: it is taken before any other step,
\* which leaves out no interleaving of the steps on the maps and the lock
NoneDone == \A g \in Goroutines : pc[g] # "done"

\* ------------------------------------------------------------------- Init

\* shoppingCart := cart.NewCart()
InitCart ==
    /\ shoppingCart = NewCart
    /\ lastOp = NoOp
    /\ ledger = NoLedger
    /\ nops = 0

InitStore ==
    /\ carts = EmptyMap
    /\ userCarts = EmptyMap
    /\ mu = [w |-> NoGoroutine, r |-> {}]
    /\ heap = [a \in Addrs |-> NewCart]
    /\ pc = [g \in Goroutines |-> "idle"]
    /\ call = [g \in Goroutines |-> NoCall]
    /\ loc = [g \in Goroutines |-> ""]
    /\ res = [g \in Goroutines |-> NoRes]
    /\ held = [g \in Goroutines |-> Nil]
    /\ myID = [g \in Goroutines |-> ""]
    /\ results = <<>>
    /\ snap = [g \in Goroutines |-> NoSnap]
    /\ winners = [u \in AllUserIDs |-> 0]
    /\ issued = {}
    /\ ncalls = 0

InitRepo == InitStore /\ InitCart

Init == InitRepo /\ script = [g \in Goroutines |-> "free"]

\* ----------------------------------------------------- entering a method

\* the call of a method with its arguments, up to and including
\* r.mu.Lock() / r.mu.RLock(); h is the heap with the caller's argument in it.
\* A goroutine blocked on the lock is one that has not entered yet.
Enter(g, c, h) ==
    /\ pc[g] = "idle"
    /\ NoneDone
    /\ call' = [call EXCEPT ![g] = c]
    /\ IF Validate(c) # ErrNil
       THEN /\ pc' = [pc EXCEPT ![g] = "done"]
            /\ res' = [res EXCEPT ![g] = ErrRes(Validate(c))]
            /\ UNCHANGED <<mu, snap>>
       ELSE /\ IF LockMode(c.op) = "W"
               THEN /\ mu.w = NoGoroutine
                    /\ mu.r = {}
                    /\ mu' = [mu EXCEPT !.w = g]
               ELSE /\ mu.w = NoGoroutine
                    /\ mu' = [mu EXCEPT !.r = @ \cup {g}]
            /\ pc' = [pc EXCEPT ![g] = FirstStep(c.op)]
            /\ snap' = [snap EXCEPT ![g] = [carts |-> carts, userCarts |-> userCarts]]
            /\ res' = res
    /\ UNCHANGED <<carts, userCarts, loc, held, winners, issued>>
    /\ heap' = Collect(h, Reach(carts', held', call', res'))

ReleaseKeepOnError(g) ==
    /\ pc[g] = "unlock"
    /\ NoneDone
    /\ mu' = IF res[g].err # ErrNil THEN mu
             ELSE IF LockMode(call[g].op) = "W"
             THEN [mu EXCEPT !.w = NoGoroutine]
             ELSE [mu EXCEPT !.r = @ \ {g}]
    /\ pc' = [pc EXCEPT ![g] = "done"]
    /\ snap' = [snap EXCEPT ![g] = NoSnap]
    /\ UNCHANGED <<tvars, ncalls, carts, userCarts, heap, call, loc, res, held, winners, issued>>

\* defer r.mu.Unlock() / defer r.mu.RUnlock()
Release(g) ==
    /\ pc[g] = "unlock"
    /\ NoneDone
    /\ mu' = IF LockMode(call[g].op) = "W"
             THEN [mu EXCEPT !.w = NoGoroutine]
             ELSE [mu EXCEPT !.r = @ \ {g}]
    /\ pc' = [pc EXCEPT ![g] = "done"]
    /\ snap' = [snap EXCEPT ![g] = NoSnap]
    /\ UNCHANGED <<tvars, ncalls, carts, userCarts, heap, call, loc, res, held, winners, issued>>
\* ----------------------------------------------------------------- Create

CreateCheckOverwrite(g) ==
    /\ pc[g] = "check"
    /\ NoneDone
    /\ call[g].op = "Create"
    /\ pc' = [pc EXCEPT ![g] = "store"]
    /\ UNCHANGED <<tvars, ncalls, carts, userCarts, mu, heap, call, loc, res, held, snap, winners, issued>>

\* if existingCartID, exists := r.userCarts[userID]; exists { return ... }
CreateCheck(g) ==
    /\ pc[g] = "check"
    /\ NoneDone
    /\ call[g].op = "Create"
    /\ IF call[g].userID \in DOMAIN userCarts
       THEN /\ res' = [res EXCEPT ![g] =
                         [NoRes EXCEPT !.id = userCarts[call[g].userID],
                                       !.err = ErrCartExists]]
            /\ pc' = [pc EXCEPT ![g] = "unlock"]
       ELSE /\ res' = res
            /\ pc' = [pc EXCEPT ![g] = "store"]
    /\ UNCHANGED <<tvars, ncalls, carts, userCarts, mu, heap, call, loc, held, snap, winners, issued>>

\* the cart id, the CartData and r.carts[cartID] = cartData
CreateStore(g) ==
    /\ pc[g] = "store"
    /\ NoneDone
    /\ call[g].op = "Create"
    /\ Addrs \ Live # {}
    /\ \E nanos \in ClockValues, now \in ClockValues :
         LET cartID == CartIDFormat(call[g].userID, nanos)
             cartData == [ID |-> cartID, UserID |-> call[g].userID, Cart |-> FreshAddr,
                          CreatedAt |-> now, UpdatedAt |-> now]
         IN /\ carts' = MapPut(carts, cartID, cartData)
            /\ loc' = [loc EXCEPT ![g] = cartID]
    /\ winners' = [winners EXCEPT ![call[g].userID] = @ + 1]
    /\ pc' = [pc EXCEPT ![g] = "index"]
    /\ UNCHANGED <<tvars, ncalls, userCarts, mu, call, res, held, snap, issued>>
    /\ heap' = Collect([heap EXCEPT ![FreshAddr] = NewCart],
                       Reach(carts', held', call', res'))

CreateIndexSkip(g) ==
    /\ pc[g] = "index"
    /\ NoneDone
    /\ call[g].op = "Create"
    /\ res' = [res EXCEPT ![g] = [NoRes EXCEPT !.id = loc[g]]]
    /\ issued' = issued \cup {loc[g]}
    /\ pc' = [pc EXCEPT ![g] = "unlock"]
    /\ UNCHANGED <<tvars, ncalls, carts, userCarts, mu, heap, call, loc, held, snap, winners>>

\* r.userCarts[userID] = cartID; return cartID, nil
CreateIndex(g) ==
    /\ pc[g] = "index"
    /\ NoneDone
    /\ call[g].op = "Create"
    /\ userCarts' = MapPut(userCarts, call[g].userID, loc[g])
    /\ res' = [res EXCEPT ![g] = [NoRes EXCEPT !.id = loc[g]]]
    /\ issued' = issued \cup {loc[g]}
    /\ pc' = [pc EXCEPT ![g] = "unlock"]
    /\ UNCHANGED <<tvars, ncalls, carts, mu, heap, call, loc, held, snap, winners>>


\* ---------------------------------------------------------------- GetByID

GetByIDReadTouch(g) ==
    /\ pc[g] = "read"
    /\ NoneDone
    /\ call[g].op = "GetByID"
    /\ res' = [res EXCEPT ![g] =
                 IF call[g].cartID \in DOMAIN carts
                 THEN [NoRes EXCEPT !.cart = carts[call[g].cartID].Cart]
                 ELSE ErrRes(ErrCartNotFound)]
    /\ \E now \in ClockValues :
         carts' = IF call[g].cartID \in DOMAIN carts
                  THEN [carts EXCEPT ![call[g].cartID].UpdatedAt = now]
                  ELSE carts
    /\ pc' = [pc EXCEPT ![g] = "unlock"]
    /\ UNCHANGED <<tvars, ncalls, userCarts, mu, heap, call, loc, held, snap, winners, issued>>

\* cartData, exists := r.carts[cartID]
GetByIDRead(g) ==
    /\ pc[g] = "read"
    /\ NoneDone
    /\ call[g].op = "GetByID"
    /\ res' = [res EXCEPT ![g] =
                 IF call[g].cartID \in DOMAIN carts
                 THEN [NoRes EXCEPT !.cart = carts[call[g].cartID].Cart]
                 ELSE ErrRes(ErrCartNotFound)]
    /\ pc' = [pc EXCEPT ![g] = "unlock"]
    /\ UNCHANGED <<tvars, ncalls, carts, userCarts, mu, heap, call, loc, held, snap, winners, issued>>

\* ------------------------------------------------------------ GetByUserID

\* cartID, exists := r.userCarts[userID]
GetByUserIDIndex(g) ==
    /\ pc[g] = "index"
    /\ NoneDone
    /\ call[g].op = "GetByUserID"
    /\ IF call[g].userID \in DOMAIN userCarts
       THEN /\ loc' = [loc EXCEPT ![g] = userCarts[call[g].userID]]
            /\ res' = res
            /\ pc' = [pc EXCEPT ![g] = "read"]
       ELSE /\ loc' = loc
            /\ res' = [res EXCEPT ![g] = ErrRes(ErrCartNotFound)]
            /\ pc' = [pc EXCEPT ![g] = "unlock"]
    /\ UNCHANGED <<tvars, ncalls, carts, userCarts, mu, heap, call, held, snap, winners, issued>>

GetByUserIDReadDefault(g) ==
    /\ pc[g] = "read"
    /\ NoneDone
    /\ call[g].op = "GetByUserID"
    /\ res' = [res EXCEPT ![g] =
                 IF loc[g] \in DOMAIN carts
                 THEN [NoRes EXCEPT !.cart = carts[loc[g]].Cart]
                 ELSE [NoRes EXCEPT !.cart = FreshAddr]]
    /\ pc' = [pc EXCEPT ![g] = "unlock"]
    /\ UNCHANGED <<tvars, ncalls, carts, userCarts, mu, heap, call, loc, held, snap, winners, issued>>

\* cartData, exists := r.carts[cartID]
GetByUserIDRead(g) ==
    /\ pc[g] = "read"
    /\ NoneDone
    /\ call[g].op = "GetByUserID"
    /\ res' = [res EXCEPT ![g] =
                 IF loc[g] \in DOMAIN carts
                 THEN [NoRes EXCEPT !.cart = carts[loc[g]].Cart]
                 ELSE ErrRes(ErrCartNotFound)]
    /\ pc' = [pc EXCEPT ![g] = "unlock"]
    /\ UNCHANGED <<tvars, ncalls, carts, userCarts, mu, heap, call, loc, held, snap, winners, issued>>

\* ----------------------------------------------------------------- Update

\* cartData, exists := r.carts[cartID]
UpdateCheck(g) ==
    /\ pc[g] = "check"
    /\ NoneDone
    /\ call[g].op = "Update"
    /\ IF call[g].cartID \in DOMAIN carts
       THEN /\ res' = res
            /\ pc' = [pc EXCEPT ![g] = "store"]
       ELSE /\ res' = [res EXCEPT ![g] = ErrRes(ErrCartNotFound)]
            /\ pc' = [pc EXCEPT ![g] = "unlock"]
    /\ UNCHANGED <<tvars, ncalls, carts, userCarts, mu, heap, call, loc, held, snap, winners, issued>>

UpdateStoreNewRecord(g) ==
    /\ pc[g] = "store"
    /\ NoneDone
    /\ call[g].op = "Update"
    /\ \E now \in ClockValues :
         carts' = IF call[g].cartID \in DOMAIN carts
                  THEN [carts EXCEPT ![call[g].cartID].Cart = call[g].cart,
                                     ![call[g].cartID].CreatedAt = now,
                                     ![call[g].cartID].UpdatedAt = now]
                  ELSE carts
    /\ res' = [res EXCEPT ![g] = NoRes]
    /\ pc' = [pc EXCEPT ![g] = "unlock"]
    /\ UNCHANGED <<tvars, ncalls, userCarts, mu, call, loc, held, snap, winners, issued>>
    /\ heap' = Collect(heap, Reach(carts', held', call', res'))

\* cartData.Cart = updatedCart; cartData.UpdatedAt = time.Now()
UpdateStore(g) ==
    /\ pc[g] = "store"
    /\ NoneDone
    /\ call[g].op = "Update"
    /\ \E now \in ClockValues :
         carts' = IF call[g].cartID \in DOMAIN carts
                  THEN [carts EXCEPT ![call[g].cartID].Cart = call[g].cart,
                                     ![call[g].cartID].UpdatedAt = now]
                  ELSE carts
    /\ res' = [res EXCEPT ![g] = NoRes]
    /\ pc' = [pc EXCEPT ![g] = "unlock"]
    /\ UNCHANGED <<tvars, ncalls, userCarts, mu, call, loc, held, snap, winners, issued>>
    /\ heap' = Collect(heap, Reach(carts', held', call', res'))

\* ----------------------------------------------------------------- Delete

\* cartData, exists := r.carts[cartID]
DeleteCheck(g) ==
    /\ pc[g] = "check"
    /\ NoneDone
    /\ call[g].op = "Delete"
    /\ IF call[g].cartID \in DOMAIN carts
       THEN /\ loc' = [loc EXCEPT ![g] = carts[call[g].cartID].UserID]
            /\ res' = res
            /\ pc' = [pc EXCEPT ![g] = "store"]
       ELSE /\ loc' = loc
            /\ res' = [res EXCEPT ![g] = ErrRes(ErrCartNotFound)]
            /\ pc' = [pc EXCEPT ![g] = "unlock"]
    /\ UNCHANGED <<tvars, ncalls, carts, userCarts, mu, heap, call, held, snap, winners, issued>>

\* delete(r.carts, cartID)
DeleteStore(g) ==
    /\ pc[g] = "store"
    /\ NoneDone
    /\ call[g].op = "Delete"
    /\ carts' = MapDelete(carts, call[g].cartID)
    /\ pc' = [pc EXCEPT ![g] = "index"]
    /\ UNCHANGED <<tvars, ncalls, userCarts, mu, call, loc, res, held, snap, winners, issued>>
    /\ heap' = Collect(heap, Reach(carts', held', call', res'))

DeleteIndexKeep(g) ==
    /\ pc[g] = "index"
    /\ NoneDone
    /\ call[g].op = "Delete"
    /\ res' = [res EXCEPT ![g] = NoRes]
    /\ pc' = [pc EXCEPT ![g] = "unlock"]
    /\ UNCHANGED <<tvars, ncalls, carts, userCarts, mu, heap, call, loc, held, snap, winners, issued>>

DeleteIndexAll(g) ==
    /\ pc[g] = "index"
    /\ NoneDone
    /\ call[g].op = "Delete"
    /\ userCarts' = EmptyMap
    /\ winners' = [winners EXCEPT ![loc[g]] = 0]
    /\ res' = [res EXCEPT ![g] = NoRes]
    /\ pc' = [pc EXCEPT ![g] = "unlock"]
    /\ UNCHANGED <<tvars, ncalls, carts, mu, heap, call, loc, held, snap, issued>>

\* delete(r.userCarts, cartData.UserID); return nil
DeleteIndex(g) ==
    /\ pc[g] = "index"
    /\ NoneDone
    /\ call[g].op = "Delete"
    /\ userCarts' = MapDelete(userCarts, loc[g])
    /\ winners' = [winners EXCEPT ![loc[g]] = 0]
    /\ res' = [res EXCEPT ![g] = NoRes]
    /\ pc' = [pc EXCEPT ![g] = "unlock"]
    /\ UNCHANGED <<tvars, ncalls, carts, mu, heap, call, loc, held, snap, issued>>

\* ----------------------------------------------------------------- Exists

\* _, exists := r.carts[cartID]; return exists, nil
ExistsRead(g) ==
    /\ pc[g] = "read"
    /\ NoneDone
    /\ call[g].op = "Exists"
    /\ res' = [res EXCEPT ![g] = [NoRes EXCEPT !.ok = call[g].cartID \in DOMAIN carts]]
    /\ pc' = [pc EXCEPT ![g] = "unlock"]
    /\ UNCHANGED <<tvars, ncalls, carts, userCarts, mu, heap, call, loc, held, snap, winners, issued>>

\* one step of a repository method by goroutine g
RepoStep(g) ==
    \/ CreateCheck(g)
    \/ CreateStore(g)
    \/ CreateIndex(g)
    \/ GetByIDRead(g)
    \/ GetByUserIDIndex(g)
    \/ GetByUserIDRead(g)
    \/ UpdateCheck(g)
    \/ UpdateStore(g)
    \/ DeleteCheck(g)
    \/ DeleteStore(g)
    \/ DeleteIndex(g)
    \/ ExistsRead(g)
    \/ Release(g)

\* ------------------------------------------------------------ the callers

\* the calls that pass no Cart
PlainCalls ==
    {[NoCall EXCEPT !.op = "Create", !.userID = u] : u \in InputUserIDs}
    \cup {[NoCall EXCEPT !.op = "GetByUserID", !.userID = u] : u \in InputUserIDs}
    \cup {[NoCall EXCEPT !.op = o, !.cartID = c] :
            o \in {"GetByID", "Delete", "Exists"}, c \in InputCartIDs}
    \cup {[NoCall EXCEPT !.op = "Update", !.cartID = c] : c \in InputCartIDs}

\* the Cart the callers pass to Update: c := cart.NewCart(); c.AddProduct(A, 1)
BuiltCart == AddProduct(NewCart, ProductA, 1)

\* a call of any method with any argument
Call(g) ==
    /\ ncalls < MaxCalls
    /\ ncalls' = ncalls + 1
    /\ UNCHANGED tvars
    /\ \/ \E c \in PlainCalls : Enter(g, c, heap)
       \/ /\ Addrs \ Live # {}
          /\ \E id \in InputCartIDs :
               Enter(g, [NoCall EXCEPT !.op = "Update", !.cartID = id, !.cart = FreshAddr],
                     [heap EXCEPT ![FreshAddr] = BuiltCart])

\* the method has returned; the caller drops what it was given
Return(g) ==
    /\ pc[g] = "done"
    /\ pc' = [pc EXCEPT ![g] = "idle"]
    /\ call' = [call EXCEPT ![g] = NoCall]
    /\ res' = [res EXCEPT ![g] = NoRes]
    /\ loc' = [loc EXCEPT ![g] = ""]
    /\ UNCHANGED <<tvars, ncalls, carts, userCarts, mu, held, snap, winners, issued>>
    /\ heap' = Collect(heap, Reach(carts', held', call', res'))

Next ==
    \E g \in Goroutines :
        \/ Call(g)
        \/ RepoStep(g)
        \/ Return(g)

Spec == Init /\ [][Next]_vars

\* ------------------------------------- callers that keep the Cart they get

\* the calls of a caller that works on the Cart it holds
HeldCalls(g) ==
    {[NoCall EXCEPT !.op = "Create", !.userID = u] : u \in InputUserIDs \ {""}}
    \cup {[NoCall EXCEPT !.op = "GetByUserID", !.userID = u] : u \in InputUserIDs \ {""}}
    \cup {[NoCall EXCEPT !.op = "GetByID", !.cartID = c] : c \in issued}
    \cup {[NoCall EXCEPT !.op = "Update", !.cartID = c, !.cart = held[g]] : c \in issued}

HeldCall(g) ==
    /\ ncalls < MaxCalls
    /\ ncalls' = ncalls + 1
    /\ UNCHANGED tvars
    /\ \E c \in HeldCalls(g) : Enter(g, c, heap)

\* result, err := repo.GetByID(ctx, cartID): the caller now holds the
\* returned *cart.Cart
ReturnKeep(g) ==
    /\ pc[g] = "done"
    /\ held' = [held EXCEPT ![g] =
                  IF call[g].op \in {"GetByID", "GetByUserID"} /\ res[g].err = ErrNil
                  THEN res[g].cart
                  ELSE @]
    /\ pc' = [pc EXCEPT ![g] = "idle"]
    /\ call' = [call EXCEPT ![g] = NoCall]
    /\ res' = [res EXCEPT ![g] = NoRes]
    /\ loc' = [loc EXCEPT ![g] = ""]
    /\ UNCHANGED <<tvars, ncalls, carts, userCarts, mu, snap, winners, issued>>
    /\ heap' = Collect(heap, Reach(carts', held', call', res'))

\* updatedCart := cart.NewCart()
ClientNewCart(g) ==
    /\ pc[g] = "idle"
    /\ NoneDone
    /\ held[g] = Nil
    /\ Addrs \ Live # {}
    /\ held' = [held EXCEPT ![g] = FreshAddr]
    /\ UNCHANGED <<tvars, ncalls, carts, userCarts, mu, pc, call, loc, res, snap,
                   winners, issued>>
    /\ heap' = Collect([heap EXCEPT ![FreshAddr] = NewCart],
                       Reach(carts', held', call', res'))

\* c.AddProduct(product, 1) on the Cart the caller holds
ClientAddProduct(g) ==
    /\ pc[g] = "idle"
    /\ NoneDone
    /\ held[g] # Nil
    /\ CartQuantity(heap[held[g]]) < MaxQuantity
    /\ heap' = [heap EXCEPT ![held[g]] = AddProduct(@, ProductA, 1)]
    /\ UNCHANGED <<tvars, ncalls, carts, userCarts, mu, pc, call, loc, res, held, snap,
                   winners, issued>>

\* one step of the methods these callers use
HeldStep(g) ==
    \/ CreateCheck(g)
    \/ CreateStore(g)
    \/ CreateIndex(g)
    \/ GetByIDRead(g)
    \/ GetByUserIDIndex(g)
    \/ GetByUserIDRead(g)
    \/ UpdateCheck(g)
    \/ UpdateStore(g)
    \/ Release(g)

NextHeld ==
    \E g \in Goroutines :
        \/ HeldCall(g)
        \/ HeldStep(g)
        \/ ReturnKeep(g)
        \/ ClientNewCart(g)
        \/ ClientAddProduct(g)

SpecHeld == Init /\ [][NextHeld]_vars

\* ------------------------------------- TestCartRepository_ThreadSafety

InitTest == InitRepo /\ script = [g \in Goroutines |-> "create"]

\* product := cart.Product{ID: fmt.Sprintf("product%d", id), Price: float64(id * 100)}
TestProduct(g) ==
    [ID |-> "product" \o ToString(g), Description |-> "", Price |-> NewFromInt(g * 100),
     Discount |-> 0]

\* the next call of the test's goroutine: Create, then GetByID, then Update
\* with a new Cart it has added its product to
TestCall(g) ==
    /\ UNCHANGED <<tvars, ncalls>>
    /\ \/ /\ script[g] = "create"
          /\ Enter(g, [NoCall EXCEPT !.op = "Create", !.userID = UserName(g)], heap)
       \/ /\ script[g] = "get"
          /\ Enter(g, [NoCall EXCEPT !.op = "GetByID", !.cartID = myID[g]], heap)
       \/ /\ script[g] = "update"
          /\ Addrs \ Live # {}
          /\ Enter(g, [NoCall EXCEPT !.op = "Update", !.cartID = myID[g],
                                     !.cart = FreshAddr],
                   [heap EXCEPT ![FreshAddr] = AddProduct(NewCart, TestProduct(g), g)])

\* the test's goroutine after a call: an error goes to the results channel and
\* ends the goroutine; so does the result of Update
TestReturn(g) ==
    /\ pc[g] = "done"
    /\ IF res[g].err # ErrNil \/ script[g] = "update"
       THEN /\ results' = Append(results, res[g].err)
            /\ script' = [script EXCEPT ![g] = "end"]
            /\ myID' = myID
       ELSE /\ results' = results
            /\ script' = [script EXCEPT ![g] = IF @ = "create" THEN "get" ELSE "update"]
            /\ myID' = IF script[g] = "create"
                       THEN [myID EXCEPT ![g] = res[g].id]
                       ELSE myID
    /\ pc' = [pc EXCEPT ![g] = "idle"]
    /\ call' = [call EXCEPT ![g] = NoCall]
    /\ res' = [res EXCEPT ![g] = NoRes]
    /\ loc' = [loc EXCEPT ![g] = ""]
    /\ UNCHANGED <<cvars, ncalls, carts, userCarts, mu, held, snap, winners, issued>>
    /\ heap' = Collect(heap, Reach(carts', held', call', res'))

\* one step of the methods the test calls
TestStep(g) ==
    \/ CreateCheck(g)
    \/ CreateStore(g)
    \/ CreateIndex(g)
    \/ GetByIDRead(g)
    \/ UpdateCheck(g)
    \/ UpdateStore(g)
    \/ Release(g)

NextTest ==
    \E g \in Goroutines :
        \/ TestCall(g)
        \/ TestStep(g)
        \/ TestReturn(g)

SpecTest == InitTest /\ [][NextTest]_vars

\* --------------------------------------- callers that wait for r.mu

\* some goroutine is blocked in r.mu.Lock(): sync.RWMutex then keeps new
\* readers out
WriterWaiting ==
    \E h \in Goroutines : pc[h] = "wait" /\ LockMode(call[h].op) = "W"

\* the call of a method up to r.mu.Lock() / r.mu.RLock(): the checks before
\* the lock return at once, otherwise the goroutine waits for the lock
Invoke(g, c, h) ==
    /\ pc[g] = "idle"
    /\ NoneDone
    /\ call' = [call EXCEPT ![g] = c]
    /\ IF Validate(c) # ErrNil
       THEN /\ pc' = [pc EXCEPT ![g] = "done"]
            /\ res' = [res EXCEPT ![g] = ErrRes(Validate(c))]
       ELSE /\ pc' = [pc EXCEPT ![g] = "wait"]
            /\ res' = res
    /\ UNCHANGED <<carts, userCarts, mu, loc, held, snap, winners, issued>>
    /\ heap' = Collect(h, Reach(carts', held', call', res'))

\* a call of any method with any argument by a caller that may have to wait
LiveCall(g) ==
    /\ ncalls < MaxCalls
    /\ ncalls' = ncalls + 1
    /\ UNCHANGED tvars
    /\ \/ \E c \in PlainCalls : Invoke(g, c, heap)
       \/ /\ Addrs \ Live # {}
          /\ \E id \in InputCartIDs :
               Invoke(g, [NoCall EXCEPT !.op = "Update", !.cartID = id, !.cart = FreshAddr],
                      [heap EXCEPT ![FreshAddr] = BuiltCart])

\* r.mu.Lock() / r.mu.RLock() returns
Acquire(g) ==
    /\ pc[g] = "wait"
    /\ NoneDone
    /\ IF LockMode(call[g].op) = "W"
       THEN /\ mu.w = NoGoroutine
            /\ mu.r = {}
            /\ mu' = [mu EXCEPT !.w = g]
       ELSE /\ mu.w = NoGoroutine
            /\ ~WriterWaiting
            /\ mu' = [mu EXCEPT !.r = @ \cup {g}]
    /\ pc' = [pc EXCEPT ![g] = FirstStep(call[g].op)]
    /\ snap' = [snap EXCEPT ![g] = [carts |-> carts, userCarts |-> userCarts]]
    /\ UNCHANGED <<tvars, ncalls, carts, userCarts, heap, call, loc, res, held, winners, issued>>

NextLive ==
    \E g \in Goroutines :
        \/ LiveCall(g)
        \/ Acquire(g)
        \/ RepoStep(g)
        \/ Return(g)

\* the scheduler runs every goroutine that can take a step, and sync.Mutex
\* hands the lock to a goroutine that keeps waiting for it (starvation mode)
Fairness ==
    \A g \in Goroutines :
        /\ SF_vars(Acquire(g))
        /\ WF_vars(RepoStep(g))
        /\ WF_vars(Return(g))

SpecLive == Init /\ [][NextLive]_vars /\ Fairness

\* ------------------------------- a user index that points at no cart

\* the repository after the setup of "user mapping exists but cart missing":
\* r.userCarts[user] = "missing_cart_id" written with no record under that id
InitOrphan ==
    /\ carts = EmptyMap
    /\ \E u \in InputUserIDs \ {""} :
         userCarts = MapPut(EmptyMap, u, "missing_cart_id")
    /\ mu = [w |-> NoGoroutine, r |-> {}]
    /\ heap = [a \in Addrs |-> NewCart]
    /\ pc = [g \in Goroutines |-> "idle"]
    /\ call = [g \in Goroutines |-> NoCall]
    /\ loc = [g \in Goroutines |-> ""]
    /\ res = [g \in Goroutines |-> NoRes]
    /\ held = [g \in Goroutines |-> Nil]
    /\ myID = [g \in Goroutines |-> ""]
    /\ script = [g \in Goroutines |-> "free"]
    /\ results = <<>>
    /\ snap = [g \in Goroutines |-> NoSnap]
    /\ winners = [u \in AllUserIDs |-> 0]
    /\ issued = {}
    /\ ncalls = 0
    /\ InitCart

\* the calls made on that repository
OrphanCall(g) ==
    /\ ncalls < MaxCalls
    /\ ncalls' = ncalls + 1
    /\ UNCHANGED tvars
    /\ \E u \in InputUserIDs, o \in {"Create", "GetByUserID"} :
         Enter(g, [NoCall EXCEPT !.op = o, !.userID = u], heap)

\* one step of the methods called on it
OrphanStep(g) ==
    \/ CreateCheck(g)
    \/ CreateStore(g)
    \/ CreateIndex(g)
    \/ GetByUserIDIndex(g)
    \/ GetByUserIDRead(g)
    \/ Release(g)

NextOrphan ==
    \E g \in Goroutines :
        \/ OrphanCall(g)
        \/ OrphanStep(g)
        \/ Return(g)

SpecOrphan == InitOrphan /\ [][NextOrphan]_vars

\* ------------------------------------------- a caller's own Cart

\* the products the caller adds: two with one id that differ in description,
\* price and discount, one with another id, and those ValidateProduct rejects,
\* for one reason or for several
InputProducts ==
    {[ID |-> "A", Description |-> "", Price |-> NewFromInt(10), Discount |-> 0],
     [ID |-> "A", Description |-> "sale", Price |-> NewFromInt(20), Discount |-> 10],
     [ID |-> "B", Description |-> "", Price |-> NewFromInt(200), Discount |-> 50],
     [ID |-> "", Description |-> "", Price |-> NewFromInt(10), Discount |-> 0],
     [ID |-> "   ", Description |-> "", Price |-> NewFromInt(10), Discount |-> 0],
     [ID |-> "A", Description |-> "", Price |-> NewFromInt(-10), Discount |-> 0],
     [ID |-> "A", Description |-> "", Price |-> NewFromInt(10), Discount |-> 150],
     [ID |-> "A", Description |-> "", Price |-> NewFromInt(10), Discount |-> -10],
     [ID |-> "", Description |-> "", Price |-> NewFromInt(-10), Discount |-> 0],
     [ID |-> "", Description |-> "", Price |-> NewFromInt(10), Discount |-> 150],
     [ID |-> "A", Description |-> "", Price |-> NewFromInt(-10), Discount |-> 150],
     [ID |-> "", Description |-> "", Price |-> NewFromInt(-10), Discount |-> 150]}

\* the quantities the caller passes
InputQuantities == {-5, 0, 1, 2, MaxInt64}

\* the promotions the caller adds, for a product id or for none, with a
\* discount in 0 .. 100 or outside
InputPromotions ==
    {[ID |-> "", Discount |-> d, ProductID |-> pid, PromotionType |-> t] :
        d \in {10, 20}, pid \in {"A", "B", ""},
        t \in {PercentageDiscount, Buy1Get1Free, TotalDiscount, "unknown"}}
    \cup {[ID |-> "", Discount |-> d, ProductID |-> "A", PromotionType |-> t] :
            d \in {-50, 150}, t \in {PercentageDiscount, TotalDiscount}}

\* err := shoppingCart.AddProduct(product, quantity)
CartAddProduct ==
    /\ nops < MaxOps
    /\ nops' = nops + 1
    /\ \E product \in InputProducts, quantity \in InputQuantities :
         /\ shoppingCart' = AddProduct(shoppingCart, product, quantity)
         /\ lastOp' = [NoOp EXCEPT !.op = "AddProduct", !.product = product,
                                   !.quantity = quantity,
                                   !.err = AddProductError(product, quantity)]
         /\ ledger' =
              IF AddProductError(product, quantity) # ErrNil THEN ledger
              ELSE IF product.ID \in DOMAIN ledger.sum
              THEN [ledger EXCEPT !.sum[product.ID] = @ + quantity]
              ELSE [ledger EXCEPT !.sum = MapPut(@, product.ID, quantity),
                                  !.first = MapPut(@, product.ID, product)]
    /\ UNCHANGED rvars

\* shoppingCart.AddPromotion(promotion)
CartAddPromotion ==
    /\ nops < MaxOps
    /\ nops' = nops + 1
    /\ \E promotion \in InputPromotions :
         /\ shoppingCart' = AddPromotion(shoppingCart, promotion)
         /\ lastOp' = [NoOp EXCEPT !.op = "AddPromotion", !.promotion = promotion]
         /\ ledger' =
              IF promotion.PromotionType = TotalDiscount
              THEN [ledger EXCEPT !.total = promotion, !.totals = @ + 1]
              ELSE IF promotion.ProductID \in DOMAIN ledger.promo THEN ledger
              ELSE [ledger EXCEPT !.promo = MapPut(@, promotion.ProductID, promotion)]
    /\ UNCHANGED rvars

CartCalculateTotalWriteBack ==
    /\ \E order \in RangeOrders(DOMAIN shoppingCart.Items) :
         lastOp' = [NoOp EXCEPT !.op = "CalculateTotal",
                                !.result = CalculateTotal(shoppingCart, order)]
    /\ shoppingCart' =
         [shoppingCart EXCEPT !.Items =
            [id \in DOMAIN shoppingCart.Items |->
               [shoppingCart.Items[id] EXCEPT
                  !.Product.Price = GetDiscountedPrice(shoppingCart.Items[id].Product),
                  !.Product.Discount = 0]]]
    /\ UNCHANGED <<ledger, nops>>
    /\ UNCHANGED rvars

\* total := shoppingCart.CalculateTotal(), the map handing out its keys in
\* any order
CartCalculateTotal ==
    /\ \E order \in RangeOrders(DOMAIN shoppingCart.Items) :
         lastOp' = [NoOp EXCEPT !.op = "CalculateTotal",
                                !.result = CalculateTotal(shoppingCart, order)]
    /\ UNCHANGED <<shoppingCart, ledger, nops>>
    /\ UNCHANGED rvars

NextCart == CartAddProduct \/ CartAddPromotion \/ CartCalculateTotal

SpecCart == Init /\ [][NextCart]_vars

\* ------------------------------------------- the pricing functions

\* the prices the functions are given: zero, whole, with cents, the smallest
\* price that Div can still hold, and a negative one
InputPrices ==
    {DecimalZero, NewFromInt(10), DecimalNew(1999, -2),
     DecimalNew(1, -DivisionPrecision), NewFromInt(-10)}

\* the discounts of a product: below, at and above both ends of 0..100
InputDiscounts == {-10, 0, 1, 15, 50, 100, 101, 150}

PricedProducts ==
    {[ID |-> "A", Description |-> "", Price |-> price, Discount |-> discount] :
        price \in InputPrices, discount \in InputDiscounts}

\* the promotions CalculatePrice is called on: the three kinds the package
\* names, one it does not name and the zero value of PromotionType
PricedPromotions ==
    {[ID |-> "", Discount |-> d, ProductID |-> "A", PromotionType |-> t] :
        d \in {0, 10, 25},
        t \in {PercentageDiscount, Buy1Get1Free, TotalDiscount, "unknown", ""}}

\* the quantities CalculatePrice is given: the small ones, and around the
\* first one that a float64 does not hold
PricedQuantities ==
    (0 .. 5) \cup {2 ^ Float64Bits, 2 ^ Float64Bits + 1, 2 ^ Float64Bits + 3, MaxInt64}

\* the money values DisplayPrice is given: with no, one, two and three places
InputMoney ==
    {DecimalNew(c, -e) : c \in {0, 4, 5, 994, 995, 1234, -4, -5}, e \in 0 .. 3}

\* the cart of main: three products, two of them on sale, and a promotion on
\* two of them
DemoCart ==
    LET productA == [ID |-> "A", Description |-> "", Price |-> NewFromInt(100), Discount |-> 10]
        productB == [ID |-> "B", Description |-> "", Price |-> NewFromInt(200), Discount |-> 0]
        productC == [ID |-> "C", Description |-> "", Price |-> DecimalNew(5053, -2), Discount |-> 15]
        c1 == AddProduct(NewCart, productA, 3)
        c2 == AddProduct(c1, productB, 1)
        c3 == AddProduct(c2, productC, 2)
        c4 == AddPromotion(c3, [ID |-> "", Discount |-> 18, ProductID |-> "A",
                                PromotionType |-> PercentageDiscount])
    IN AddPromotion(c4, [ID |-> "", Discount |-> 0, ProductID |-> "C",
                         PromotionType |-> Buy1Get1Free])

InitPrice ==
    /\ InitStore
    /\ script = [g \in Goroutines |-> "free"]
    /\ shoppingCart = DemoCart
    /\ lastOp = NoOp
    /\ ledger = NoLedger
    /\ nops = 0

\* product.GetDiscountedPrice()
ProductGetDiscountedPrice ==
    /\ \E product \in PricedProducts :
         lastOp' = [NoOp EXCEPT !.op = "GetDiscountedPrice", !.product = product,
                                !.result = GetDiscountedPrice(product)]
    /\ UNCHANGED <<shoppingCart, ledger, nops>>
    /\ UNCHANGED rvars

\* product.ValidateDiscount()
ProductValidateDiscount ==
    /\ \E product \in PricedProducts :
         lastOp' = [NoOp EXCEPT !.op = "ValidateDiscount", !.product = product,
                                !.valid = ValidateDiscount(product)]
    /\ UNCHANGED <<shoppingCart, ledger, nops>>
    /\ UNCHANGED rvars

\* promotion.CalculatePrice(price, qty)
PromotionCalculatePrice ==
    /\ \E promotion \in PricedPromotions, price \in InputPrices, qty \in PricedQuantities :
         lastOp' = [NoOp EXCEPT !.op = "CalculatePrice", !.promotion = promotion,
                                !.price = price, !.quantity = qty,
                                !.result = CalculatePrice(promotion, price, qty)]
    /\ UNCHANGED <<shoppingCart, ledger, nops>>
    /\ UNCHANGED rvars

\* cart.DisplayPrice(price), of a money value or of the total just calculated
CallDisplayPrice ==
    /\ \E price \in InputMoney \cup
                    (IF lastOp.op = "CalculateTotal" THEN {lastOp.result} ELSE {}) :
         lastOp' = [NoOp EXCEPT !.op = "DisplayPrice", !.price = price,
                                !.text = DisplayPrice(price)]
    /\ UNCHANGED <<shoppingCart, ledger, nops>>
    /\ UNCHANGED rvars

NextPrice ==
    \/ ProductGetDiscountedPrice
    \/ ProductValidateDiscount
    \/ PromotionCalculatePrice
    \/ CartCalculateTotal
    \/ CallDisplayPrice

SpecPrice == InitPrice /\ [][NextPrice]_vars

\* ------------------------------------------- package sort

\* merge(left, right) from the indices i and j on, result being what the loop
\* and the two appends have built
mergeOnce(left, right, i, j, result) ==
    IF i <= Len(left) /\ j <= Len(right)
    THEN IF left[i] <= right[j]
         THEN [i |-> i + 1, j |-> j + 1, result |-> Append(result, left[i])]
         ELSE [i |-> i, j |-> j + 1, result |-> Append(result, right[j])]
    ELSE [i |-> Len(left) + 1, j |-> Len(right) + 1,
          result |-> result \o SubSeq(left, i, Len(left)) \o SubSeq(right, j, Len(right))]

mergeStep(left, right, i, j, result) ==
    IF i <= Len(left) /\ j <= Len(right)
    THEN IF left[i] < right[j]
         THEN [i |-> i + 1, j |-> j, result |-> Append(result, left[i])]
         ELSE [i |-> i, j |-> j + 1, result |-> Append(result, right[j])]
    ELSE [i |-> Len(left) + 1, j |-> Len(right) + 1,
          result |-> result \o SubSeq(left, i, Len(left)) \o SubSeq(right, j, Len(right))]

RECURSIVE mergeFrom(_, _, _, _, _)
mergeFrom(left, right, i, j, result) ==
    IF i > Len(left) /\ j > Len(right) THEN result
    ELSE LET next == mergeStep(left, right, i, j, result)
         IN mergeFrom(left, right, next.i, next.j, next.result)

merge(left, right) == mergeFrom(left, right, 1, 1, <<>>)

RECURSIVE MergeSort(_)
MergeSort(nums) ==
    IF Len(nums) <= 1 THEN nums
    ELSE LET mid == Len(nums) \div 2
             sortedLeft == MergeSort(SubSeq(nums, 1, mid))
             sortedRight == MergeSort(SubSeq(nums, mid + 1, Len(nums)))
         IN merge(sortedLeft, sortedRight)

\* the inner loop of SelectSort: the index of the first least element from j on
RECURSIVE MinIdx(_, _, _)
MinIdx(nums, minIdx, j) ==
    IF j > Len(nums) THEN minIdx
    ELSE MinIdx(nums, IF nums[j] < nums[minIdx] THEN j ELSE minIdx, j + 1)

\* the outer loop of SelectSort from i on
RECURSIVE SelectFrom(_, _)
SelectFrom(nums, i) ==
    IF i >= Len(nums) THEN nums
    ELSE LET minIdx == MinIdx(nums, i, i + 1)
         IN SelectFrom(IF minIdx # i
                       THEN [nums EXCEPT ![i] = nums[minIdx], ![minIdx] = nums[i]]
                       ELSE nums,
                       i + 1)

SelectSort(nums) == SelectFrom(nums, 1)

\* the integers of the slices, one of them negative
SortValues == {-1, 0, 2}

\* the slices the functions are given: every one of up to MaxLen elements
InputSlices == UNION {[1 .. n -> SortValues] : n \in 0 .. MaxLen}

CallMergeSort ==
    /\ \E nums \in InputSlices :
         lastOp' = [NoOp EXCEPT !.op = "MergeSort", !.nums = nums,
                                !.sorted = MergeSort(nums)]
    /\ UNCHANGED <<shoppingCart, ledger, nops>>
    /\ UNCHANGED rvars

CallSelectSort ==
    /\ \E nums \in InputSlices :
         lastOp' = [NoOp EXCEPT !.op = "SelectSort", !.nums = nums,
                                !.sorted = SelectSort(nums)]
    /\ UNCHANGED <<shoppingCart, ledger, nops>>
    /\ UNCHANGED rvars

NextSort == CallMergeSort \/ CallSelectSort

SpecSort == Init /\ [][NextSort]_vars

\* ------------------------------------------ the methods, one call at a time

\* what GetByID(cartID) returns on the maps m
SeqGetByID(m, cartID) ==
    IF cartID = "" THEN ErrRes(ErrInvalidCartID)
    ELSE IF cartID \in DOMAIN m.carts
    THEN [NoRes EXCEPT !.cart = m.carts[cartID].Cart]
    ELSE ErrRes(ErrCartNotFound)

\* what GetByUserID(userID) returns on the maps m
SeqGetByUserID(m, userID) ==
    IF userID = "" THEN ErrRes(ErrInvalidUserID)
    ELSE IF userID \notin DOMAIN m.userCarts THEN ErrRes(ErrCartNotFound)
    ELSE IF m.userCarts[userID] \in DOMAIN m.carts
    THEN [NoRes EXCEPT !.cart = m.carts[m.userCarts[userID]].Cart]
    ELSE ErrRes(ErrCartNotFound)

\* what Exists(cartID) returns on the maps m
SeqExists(m, cartID) ==
    IF cartID = "" THEN ErrRes(ErrInvalidCartID)
    ELSE [NoRes EXCEPT !.ok = cartID \in DOMAIN m.carts]

\* what Create(userID) returns on the maps m, newID being the id it builds
SeqCreate(m, userID, newID) ==
    IF userID = "" THEN ErrRes(ErrInvalidUserID)
    ELSE IF userID \in DOMAIN m.userCarts
    THEN [NoRes EXCEPT !.id = m.userCarts[userID], !.err = ErrCartExists]
    ELSE [NoRes EXCEPT !.id = newID]

\* what Update(cartID, cart) returns on the maps m
SeqUpdate(m, cartID, cart) ==
    IF cartID = "" THEN ErrRes(ErrInvalidCartID)
    ELSE IF cart = Nil THEN ErrRes(ErrNilCart)
    ELSE IF cartID \in DOMAIN m.carts THEN NoRes
    ELSE ErrRes(ErrCartNotFound)

\* what Delete(cartID) returns on the maps m
SeqDelete(m, cartID) ==
    IF cartID = "" THEN ErrRes(ErrInvalidCartID)
    ELSE IF cartID \in DOMAIN m.carts THEN NoRes
    ELSE ErrRes(ErrCartNotFound)

\* what the call c returns when it runs alone on the maps m
SeqResult(m, c, newID) ==
    CASE c.op = "Create" -> SeqCreate(m, c.userID, newID)
      [] c.op = "GetByID" -> SeqGetByID(m, c.cartID)
      [] c.op = "GetByUserID" -> SeqGetByUserID(m, c.userID)
      [] c.op = "Update" -> SeqUpdate(m, c.cartID, c.cart)
      [] c.op = "Delete" -> SeqDelete(m, c.cartID)
      [] c.op = "Exists" -> SeqExists(m, c.cartID)

\* the maps after the call c has run alone on the maps m and returned r;
\* rec is the CartData a Create or an Update leaves under its id
SeqEffect(m, c, r, rec) ==
    IF r.err # ErrNil THEN m
    ELSE CASE c.op = "Create" ->
                [carts |-> MapPut(m.carts, r.id, rec),
                 userCarts |-> MapPut(m.userCarts, c.userID, r.id)]
           [] c.op = "Update" ->
                [carts |-> MapPut(m.carts, c.cartID, rec), userCarts |-> m.userCarts]
           [] c.op = "Delete" ->
                [carts |-> MapDelete(m.carts, c.cartID),
                 userCarts |-> MapDelete(m.userCarts, m.carts[c.cartID].UserID)]
           [] OTHER -> m

Maps == [carts |-> carts, userCarts |-> userCarts]

\* ------------------------------------------------------------ properties

Writers == {"Create", "Update", "Delete"}
Readers == {"GetByID", "GetByUserID", "Exists"}

\* a Create or a Delete has written r.carts and not yet r.userCarts
HalfDone(g) == pc[g] = "index" /\ call[g].op \in {"Create", "Delete"}

\* the user index and the primary store name each other
IndexConsistent ==
    /\ \A u \in DOMAIN userCarts :
         userCarts[u] \in DOMAIN carts /\ carts[userCarts[u]].UserID = u
    /\ \A c \in DOMAIN carts :
         /\ carts[c].ID = c
         /\ carts[c].UserID \in DOMAIN userCarts
         /\ userCarts[carts[c].UserID] = c

\* C1: of the Create calls for one user made while the user has no cart, one
\* allocates a cart and returns a nil error; every other returns ErrCartExists
\* with the id the first allocated; no two of them allocate.
C1_OneCreateWins ==
    /\ \A u \in AllUserIDs : winners[u] <= 1
    /\ \A g \in Goroutines :
         (call[g].op = "Create" /\ call[g].userID # "" /\ pc[g] \in {"unlock", "done"})
         => /\ res[g].err \in {ErrNil, ErrCartExists}
            /\ winners[call[g].userID] = 1
            /\ call[g].userID \in DOMAIN userCarts
            /\ res[g].id = userCarts[call[g].userID]
            /\ res[g].err = ErrNil <=> loc[g] = res[g].id

\* a second Create for a user has returned ErrCartExists with the user's id
C1_Witness ==
    \E g \in Goroutines :
        /\ call[g].op = "Create"
        /\ pc[g] = "done"
        /\ res[g].err = ErrCartExists
        /\ res[g].id = userCarts[call[g].userID]
        /\ winners[call[g].userID] = 1

\* C2: whenever no Create or Delete is between its two writes, userCarts[u] = c
\* holds exactly when carts[c] exists with UserID u: no orphaned index entry, no
\* cart without its index entry, one cart per user at most.
C2_IndexMatchesStore ==
    (\A g \in Goroutines : ~HalfDone(g)) => IndexConsistent

\* a user has a cart while a cart issued earlier has been deleted
C2_Witness ==
    /\ \A g \in Goroutines : pc[g] = "idle"
    /\ Cardinality(DOMAIN userCarts) = 1
    /\ \E c \in issued : c \notin DOMAIN carts

\* C3: the id a successful Create returns is none an earlier successful Create
\* has returned, deleted carts included.
C3_IdNeverReturnedTwice ==
    [][\A g \in Goroutines :
         (call[g].op = "Create" /\ pc[g] = "index" /\ pc'[g] = "unlock")
         => res'[g].id \notin issued]_vars

\* C4: a Cart the repository stores changes only through the repository: as
\* long as the record under an id is the same, the Cart it refers to reads the
\* same, whatever the callers do with the Carts they were given or have passed.
C4_StoredCartIsACopy ==
    [][\A c \in DOMAIN carts :
         (c \in DOMAIN carts' /\ carts'[c] = carts[c])
         => heap'[carts[c].Cart] = heap[carts[c].Cart]]_vars

\* C5: once Delete(id) has returned nil (the id was issued and is gone from the
\* store), GetByID(id) fails with ErrCartNotFound and Exists(id) is false at
\* every later time, and the owner has no index entry until its next Create.
C5_DeletedStaysDeleted ==
    [][\A c \in issued :
         (c \notin DOMAIN carts /\ SeqGetByID(Maps, c).err = ErrCartNotFound)
         => /\ SeqGetByID(Maps', c).err = ErrCartNotFound
            /\ ~SeqExists(Maps', c).ok]_vars

\* C6: in the thread-safety test every goroutine's Create returns a nil error
\* and a non-empty id no other goroutine got, and its GetByID and Update on
\* that id succeed: every error sent to the results channel is nil.
C6_ThreadSafety ==
    /\ \A i \in 1 .. Len(results) : results[i] = ErrNil
    /\ \A g \in Goroutines :
         /\ (call[g].op = "Create" /\ pc[g] = "done") => res[g].err = ErrNil /\ res[g].id # ""
         /\ script[g] \in {"get", "update"} => myID[g] # ""
         /\ \A h \in Goroutines \ {g} : myID[g] # "" => myID[h] # myID[g]
         /\ script[g] = "end" => myID[g] \in DOMAIN carts

\* every goroutine of the test has sent its result
C6_Witness ==
    /\ Len(results) = NumGoroutines
    /\ \A g \in Goroutines : script[g] = "end" /\ myID[g] # ""

\* C7: Create for a user who has a cart returns that cart's id with
\* ErrCartExists and changes neither map, no record and no stored Cart.
C7_CreateExistingIsNoOp ==
    [][\A g \in Goroutines :
         /\ (call[g].op = "Create" /\ pc[g] = "check" /\ pc'[g] # "check"
                /\ call[g].userID \in DOMAIN userCarts)
            => /\ pc'[g] = "unlock"
               /\ res'[g] = [NoRes EXCEPT !.id = userCarts[call[g].userID],
                                          !.err = ErrCartExists]
               /\ UNCHANGED <<carts, userCarts>>
               /\ \A c \in DOMAIN carts : heap'[carts[c].Cart] = heap[carts[c].Cart]
         /\ (call[g].op = "Create" /\ pc[g] = "unlock" /\ pc'[g] # "unlock"
                /\ res[g].err = ErrCartExists)
            => /\ res'[g] = res[g]
               /\ [carts |-> carts', userCarts |-> userCarts'] = snap[g]
               /\ \A c \in DOMAIN carts : heap'[carts[c].Cart] = heap[carts[c].Cart]]_vars

\* a Create has found the user's cart and is about to return
C7_Witness ==
    \E g \in Goroutines :
        /\ call[g].op = "Create"
        /\ pc[g] = "unlock"
        /\ res[g].err = ErrCartExists
        /\ carts[res[g].id].UpdatedAt # carts[res[g].id].CreatedAt

\* C8: Create("") returns "" and ErrInvalidUserID; Create(u) for a user without
\* a cart returns nil and a non-empty id, and at its return Exists(id) is true
\* and GetByID(id) and GetByUserID(u) give the same Cart, a new empty one.
C8_CreateResult ==
    \A g \in Goroutines :
        /\ (call[g].op = "Create" /\ pc[g] = "done" /\ call[g].userID = "")
           => res[g] = ErrRes(ErrInvalidUserID)
        /\ (call[g].op = "Create" /\ pc[g] = "unlock")
           => /\ call[g].userID \notin DOMAIN snap[g].userCarts => res[g].err = ErrNil
              /\ res[g].err = ErrNil
                 => /\ res[g].id # ""
                    /\ SeqExists(Maps, res[g].id) = [NoRes EXCEPT !.ok = TRUE]
                    /\ SeqGetByID(Maps, res[g].id).err = ErrNil
                    /\ SeqGetByUserID(Maps, call[g].userID) = SeqGetByID(Maps, res[g].id)
                    /\ heap[SeqGetByID(Maps, res[g].id).cart] = NewCart

\* a Create for a user without a cart is about to return
C8_Witness ==
    \E g \in Goroutines :
        /\ call[g].op = "Create"
        /\ pc[g] = "unlock"
        /\ res[g].err = ErrNil
        /\ call[g].userID \notin DOMAIN snap[g].userCarts

\* C9: a goroutine inside the critical section of Create, Update or Delete
\* holds the write lock from its check to its return and is alone inside;
\* only GetByID, GetByUserID and Exists are inside together.
C9_LockDiscipline ==
    \A g \in Goroutines :
        InCS(g) =>
            /\ call[g].op \in Writers
               => /\ mu.w = g
                  /\ mu.r = {}
                  /\ \A h \in Goroutines \ {g} : ~InCS(h)
            /\ call[g].op \in Readers
               => /\ g \in mu.r
                  /\ mu.w = NoGoroutine
                  /\ \A h \in Goroutines \ {g} : InCS(h) => call[h].op \in Readers

\* two readers are inside together
C9_Witness ==
    \E g, h \in Goroutines :
        /\ g # h
        /\ InCS(g) /\ InCS(h)
        /\ call[g].op = "GetByUserID" /\ pc[g] = "read"
        /\ call[h].op = "Exists"

\* C10: every call returns what it returns when run alone on the maps as they
\* were when it took the lock and leaves the maps as that run leaves them; a
\* reader never sees a cart without its index entry or the reverse.
C10_Atomic ==
    \A g \in Goroutines :
        /\ pc[g] = "unlock"
           => /\ res[g] = SeqResult(snap[g], call[g], loc[g])
              /\ \E rec \in {NoSnap} \cup {carts[c] : c \in DOMAIN carts} :
                   /\ Maps = SeqEffect(snap[g], call[g], res[g], rec)
                   /\ (call[g].op = "Update" /\ res[g].err = ErrNil)
                      => /\ rec.Cart = call[g].cart
                         /\ rec.ID = call[g].cartID
                         /\ rec.UserID = snap[g].carts[call[g].cartID].UserID
                         /\ rec.CreatedAt = snap[g].carts[call[g].cartID].CreatedAt
                   /\ (call[g].op = "Create" /\ res[g].err = ErrNil)
                      => rec.ID = res[g].id /\ rec.UserID = call[g].userID
        /\ (InCS(g) /\ call[g].op \in Readers) => IndexConsistent /\ Maps = snap[g]

\* a Delete of one cart has run to its return after an Update
C10_Witness ==
    \E g \in Goroutines :
        /\ pc[g] = "unlock"
        /\ call[g].op = "Delete"
        /\ res[g].err = ErrNil
        /\ \E c \in DOMAIN snap[g].carts :
             snap[g].carts[c].UpdatedAt # snap[g].carts[c].CreatedAt

\* C11: a goroutine outside the critical section holds neither side of r.mu,
\* whatever the method returned, and every call that was invoked returns: a
\* goroutine waiting for the lock gets it and a goroutine inside a method
\* leaves it.
C11_EveryCallReturns ==
    /\ [](\A g \in Goroutines : ~InCS(g) => (mu.w # g /\ g \notin mu.r))
    /\ \A g \in Goroutines : (pc[g] # "idle") ~> (pc[g] = "idle")

\* a goroutine waits for the lock while its holder is on an error return path
C11_Witness ==
    \E g, h \in Goroutines :
        /\ pc[g] = "wait"
        /\ mu.w = h
        /\ pc[h] = "unlock"
        /\ res[h].err # ErrNil

\* C12: the store step of Update(id, c) returns nil and leaves c, as it was
\* passed, under id, where GetByID(id) and GetByUserID(owner) find it; of the
\* record only Cart and UpdatedAt change, and the index and every other record
\* stay.  The Cart under an id is replaced or removed by no step but the store
\* step of an Update or a Delete of that id, and whenever no Create or Delete
\* is between its two writes GetByUserID(owner) returns what GetByID(id) does.
C12_UpdateReplacesCart ==
    [][/\ \A g \in Goroutines :
            (call[g].op = "Update" /\ pc[g] = "store" /\ pc'[g] # "store")
            => LET id == call[g].cartID
               IN /\ res'[g] = NoRes
                  /\ DOMAIN carts' = DOMAIN carts
                  /\ carts'[id].Cart = call[g].cart
                  /\ heap'[call[g].cart] = heap[call[g].cart]
                  /\ carts'[id].ID = carts[id].ID
                  /\ carts'[id].UserID = carts[id].UserID
                  /\ carts'[id].CreatedAt = carts[id].CreatedAt
                  /\ \A c \in DOMAIN carts \ {id} : carts'[c] = carts[c]
                  /\ userCarts' = userCarts
                  /\ SeqGetByID(Maps', id) = [NoRes EXCEPT !.cart = call[g].cart]
                  /\ SeqGetByUserID(Maps', carts[id].UserID)
                        = [NoRes EXCEPT !.cart = call[g].cart]
       /\ \A id \in DOMAIN carts :
            (\/ id \notin DOMAIN carts'
             \/ SeqGetByID(Maps', id) # SeqGetByID(Maps, id)
             \/ heap'[carts[id].Cart] # heap[carts[id].Cart])
            => \E g \in Goroutines :
                 /\ call[g].cartID = id
                 /\ \/ call[g].op = "Update" /\ pc[g] = "store"
                    \/ call[g].op = "Delete" /\ pc[g] = "store"
       /\ (\A g \in Goroutines : ~HalfDone(g))
          => \A id \in DOMAIN carts :
               SeqGetByUserID(Maps, carts[id].UserID) = SeqGetByID(Maps, id)]_vars

\* an Update has replaced the Cart of one of two records
C12_Witness ==
    \E g \in Goroutines :
        /\ call[g].op = "Update"
        /\ pc[g] = "unlock"
        /\ res[g].err = ErrNil
        /\ carts[call[g].cartID].Cart = call[g].cart
        /\ snap[g].carts[call[g].cartID].Cart # call[g].cart
        /\ carts[call[g].cartID].UpdatedAt # carts[call[g].cartID].CreatedAt
        /\ Cardinality(DOMAIN carts) = 2

\* C13: GetByID, Delete and Exists with an empty cart id return
\* ErrInvalidCartID, GetByUserID with an empty user id returns ErrInvalidUserID
\* and no cart; with a non-empty id that is absent GetByID and Delete return
\* ErrCartNotFound, GetByUserID returns ErrCartNotFound and no cart, and Exists
\* returns (false, nil); Exists with a non-empty id returns no error, and it
\* returns true exactly when GetByID of that id finds the cart.
C13_LookupErrors ==
    \A g \in Goroutines :
        /\ (pc[g] \in {"unlock", "done"} /\ call[g].op \in {"GetByID", "Delete", "Exists"})
           => /\ call[g].cartID = "" <=> res[g].err = ErrInvalidCartID
              /\ call[g].cartID = "" => res[g] = ErrRes(ErrInvalidCartID)
              /\ (call[g].op = "Exists" /\ call[g].cartID # "") => res[g].err = ErrNil
        /\ (pc[g] \in {"unlock", "done"} /\ call[g].op = "GetByUserID")
           => /\ call[g].userID = "" <=> res[g].err = ErrInvalidUserID
              /\ call[g].userID = "" => res[g] = ErrRes(ErrInvalidUserID)
              /\ res[g].err # ErrNil => res[g].cart = Nil
        /\ (pc[g] = "unlock" /\ call[g].op \in {"GetByID", "Delete"})
           => /\ call[g].cartID \notin DOMAIN snap[g].carts
                    <=> res[g] = ErrRes(ErrCartNotFound)
              /\ res[g].err \in {ErrNil, ErrCartNotFound}
        /\ (pc[g] = "unlock" /\ call[g].op = "GetByUserID")
           => /\ call[g].userID \notin DOMAIN snap[g].userCarts
                    <=> res[g] = ErrRes(ErrCartNotFound)
              /\ res[g].err \in {ErrNil, ErrCartNotFound}
        /\ (pc[g] = "unlock" /\ call[g].op = "Exists")
           => /\ res[g] = [NoRes EXCEPT !.ok = call[g].cartID \in DOMAIN snap[g].carts]
              /\ res[g].ok <=> SeqGetByID(Maps, call[g].cartID).err = ErrNil
              /\ \A h \in Goroutines :
                   (pc[h] = "unlock" /\ call[h].op = "GetByID"
                        /\ call[h].cartID = call[g].cartID)
                   => (res[g].ok <=> res[h].err = ErrNil)

\* Exists and GetByID of one absent id have answered side by side
C13_Witness ==
    \E g, h \in Goroutines :
        /\ pc[g] = "unlock" /\ call[g].op = "Exists"
        /\ pc[h] = "unlock" /\ call[h].op = "GetByID"
        /\ call[h].cartID = call[g].cartID
        /\ call[g].cartID # ""
        /\ res[g] = NoRes
        /\ res[h] = ErrRes(ErrCartNotFound)
        /\ carts # EmptyMap

\* C14: Update with an empty cart id returns ErrInvalidCartID, nil Cart or not;
\* otherwise with a nil Cart it returns "cart cannot be nil", absent id or not;
\* otherwise with an absent id it returns ErrCartNotFound; a step that ends in
\* one of these returns changes no record, no index entry and no stored Cart,
\* and the whole call leaves the maps as it found them.
C14_UpdateErrorOrder ==
    [][\A g \in Goroutines :
         (call'[g].op = "Update" /\ pc'[g] \in {"unlock", "done"})
         => /\ res'[g].err =
                 (IF call'[g].cartID = "" THEN ErrInvalidCartID
                  ELSE IF call'[g].cart = Nil THEN ErrNilCart
                  ELSE IF pc'[g] = "unlock" /\ call'[g].cartID \notin DOMAIN snap'[g].carts
                  THEN ErrCartNotFound
                  ELSE res'[g].err)
            /\ res'[g].err \in {ErrNil, ErrInvalidCartID, ErrNilCart, ErrCartNotFound}
            /\ (call'[g].cartID # "" /\ call'[g].cart # Nil /\ pc'[g] = "unlock"
                    /\ call'[g].cartID \in DOMAIN snap'[g].carts)
               => res'[g].err = ErrNil
            /\ res'[g].err # ErrNil
               => /\ UNCHANGED <<carts, userCarts>>
                  /\ \A c \in DOMAIN carts : heap'[carts[c].Cart] = heap[carts[c].Cart]
                  /\ pc'[g] = "unlock" => Maps' = snap'[g]]_vars

\* Update of an absent id with a nil Cart has returned "cart cannot be nil"
\* while a cart is stored
C14_Witness ==
    \E g \in Goroutines :
        /\ call[g].op = "Update"
        /\ pc[g] = "done"
        /\ call[g].cartID = "non_existent"
        /\ call[g].cart = Nil
        /\ res[g] = ErrRes(ErrNilCart)
        /\ carts # EmptyMap

\* C15: GetByUserID for a user whose index entry names a cart id the store
\* does not have returns no cart and ErrCartNotFound: the lookup of the store
\* is made, fails, and neither a Cart nor a nil error comes back.
C15_OrphanIsNotFound ==
    \A g \in Goroutines :
        (pc[g] = "unlock" /\ call[g].op = "GetByUserID"
            /\ call[g].userID \in DOMAIN snap[g].userCarts
            /\ snap[g].userCarts[call[g].userID] \notin DOMAIN snap[g].carts)
        => /\ res[g] = ErrRes(ErrCartNotFound)
           /\ res[g] = SeqGetByUserID(snap[g], call[g].userID)
           /\ Maps = snap[g]

\* GetByUserID has looked up the missing cart of the orphaned user while
\* another user has a cart
C15_Witness ==
    \E g \in Goroutines :
        /\ pc[g] = "unlock"
        /\ call[g].op = "GetByUserID"
        /\ loc[g] = "missing_cart_id"
        /\ userCarts[call[g].userID] = "missing_cart_id"
        /\ res[g] = ErrRes(ErrCartNotFound)
        /\ carts # EmptyMap

\* C16: AddProduct returns an error that begins with "invalid product: " when
\* the product's id is empty or all white space, its price is negative or its
\* discount is outside 0..100, otherwise one that begins with
\* "invalid quantity: " when the quantity is not positive, otherwise none; a
\* call that returns an error leaves items, promotions and the cart-wide
\* promotion as they were.
C16_AddProductRejects ==
    [][lastOp'.op = "AddProduct"
       => LET p == lastOp'.product
              q == lastOp'.quantity
              e == lastOp'.err
              badProduct ==
                  \/ \A i \in 1 .. Len(p.ID) : SubSeq(p.ID, i, i) \in WhiteSpace
                  \/ p.Price.coef < 0
                  \/ p.Discount < 0
                  \/ p.Discount > 100
          IN /\ badProduct => HasPrefix(e, "invalid product: ")
             /\ (~badProduct /\ q <= 0) => HasPrefix(e, "invalid quantity: ")
             /\ (~badProduct /\ q > 0) => e = ErrNil
             /\ e # ErrNil
                => /\ shoppingCart'.Items = shoppingCart.Items
                   /\ shoppingCart'.Promotion = shoppingCart.Promotion
                   /\ shoppingCart'.TotalDiscountPromotion
                        = shoppingCart.TotalDiscountPromotion]_vars

\* a product whose id is white space was refused by a cart that has an item
\* and a promotion
C16_Witness ==
    /\ lastOp.op = "AddProduct"
    /\ lastOp.product.ID = "   "
    /\ lastOp.err = "invalid product: product ID cannot be empty"
    /\ DOMAIN shoppingCart.Items # {}
    /\ DOMAIN shoppingCart.Promotion # {}

\* C17: the cart has one line item for each product id a successful AddProduct
\* was given and no other; its quantity is the sum of the quantities of those
\* calls and its product is the one the first of them was given.
C17_MergeByProductID ==
    /\ DOMAIN shoppingCart.Items = DOMAIN ledger.sum
    /\ \A id \in DOMAIN shoppingCart.Items :
         /\ shoppingCart.Items[id].Product.ID = id
         /\ shoppingCart.Items[id].Product = ledger.first[id]
         /\ shoppingCart.Items[id].Quantity = ledger.sum[id]

\* C18: every line item of the cart has a quantity above zero.
C18_QuantityPositive ==
    \A id \in DOMAIN shoppingCart.Items : shoppingCart.Items[id].Quantity > 0

\* C19: AddPromotion of a kind other than TotalDiscount for a product id that
\* has a promotion changes nothing in the cart; the promotion of a product id
\* is always the first one of such a kind that was given for it.
C19_FirstPromotionWins ==
    [][lastOp'.op = "AddPromotion"
       => /\ (lastOp'.promotion.PromotionType # TotalDiscount
                /\ lastOp'.promotion.ProductID \in DOMAIN shoppingCart.Promotion)
             => shoppingCart' = shoppingCart
          /\ shoppingCart'.Promotion = ledger'.promo]_vars

\* a promotion of another kind and discount was given for a product id that
\* had one, in a cart with an item
C19_Witness ==
    /\ lastOp.op = "AddPromotion"
    /\ lastOp.promotion.PromotionType = Buy1Get1Free
    /\ lastOp.promotion.ProductID \in DOMAIN shoppingCart.Promotion
    /\ shoppingCart.Promotion[lastOp.promotion.ProductID].PromotionType = PercentageDiscount
    /\ shoppingCart.Promotion[lastOp.promotion.ProductID].Discount # lastOp.promotion.Discount
    /\ DOMAIN shoppingCart.Items # {}

\* C20: AddPromotion of kind TotalDiscount makes the promotion given the
\* cart-wide one, whatever its product id and whatever the cart-wide promotion
\* was, and leaves the per-product promotions and the items as they were; the
\* cart-wide promotion is always the last of this kind that was given.
C20_TotalDiscountLastWins ==
    [][lastOp'.op = "AddPromotion"
       => /\ lastOp'.promotion.PromotionType = TotalDiscount
             => /\ shoppingCart'.TotalDiscountPromotion = lastOp'.promotion
                /\ shoppingCart'.Promotion = shoppingCart.Promotion
                /\ shoppingCart'.Items = shoppingCart.Items
          /\ shoppingCart'.TotalDiscountPromotion = ledger'.total]_vars

\* a second TotalDiscount promotion has replaced the first in a cart that has
\* another promotion for the same product id
C20_Witness ==
    /\ lastOp.op = "AddPromotion"
    /\ lastOp.promotion.PromotionType = TotalDiscount
    /\ ledger.totals = 2
    /\ shoppingCart.TotalDiscountPromotion = lastOp.promotion
    /\ lastOp.promotion.ProductID \in DOMAIN shoppingCart.Promotion
    /\ shoppingCart.Promotion[lastOp.promotion.ProductID] # lastOp.promotion

\* C21: CalculateTotal returns the sum over the line items of L(item), times
\* (100 - T) / 100 when a cart-wide promotion with discount T is set, where u
\* is the product's discounted price and L(item) is CalculatePrice(promotion,
\* u, quantity) when the product id has a promotion and u * quantity when it
\* has none; promotions for product ids the cart has no item of change
\* nothing, and a cart without items totals zero.
C21_TotalIsReference ==
    lastOp.op = "CalculateTotal"
    => LET c == shoppingCart
           L(id) ==
               LET u == GetDiscountedPrice(c.Items[id].Product)
               IN IF id \in DOMAIN c.Promotion
                  THEN CalculatePrice(c.Promotion[id], u, c.Items[id].Quantity)
                  ELSE Mul(u, NewFromInt(c.Items[id].Quantity))
           sum[S \in SUBSET DOMAIN c.Items] ==
               IF S = {} THEN DecimalZero
               ELSE LET id == CHOOSE x \in S : TRUE IN Add(L(id), sum[S \ {id}])
           lines == sum[DOMAIN c.Items]
           inCart == [c EXCEPT !.Promotion =
                        [id \in DOMAIN c.Promotion \cap DOMAIN c.Items |-> c.Promotion[id]]]
       IN /\ lastOp.result =
                IF c.TotalDiscountPromotion = NilPromotion THEN lines
                ELSE Div(Mul(lines, NewFromInt(100 - c.TotalDiscountPromotion.Discount)),
                         hundred)
          /\ \A order \in RangeOrders(DOMAIN c.Items) :
                CalculateTotal(inCart, order) = lastOp.result
          /\ c.Items = EmptyMap => lastOp.result = DecimalZero

\* the total was taken of a cart with an item whose product has a discount of
\* its own, a promotion for it and a cart-wide promotion
C21_Witness ==
    /\ lastOp.op = "CalculateTotal"
    /\ \E id \in DOMAIN shoppingCart.Items :
         /\ shoppingCart.Items[id].Product.Discount = 10
         /\ id \in DOMAIN shoppingCart.Promotion
         /\ shoppingCart.Promotion[id].PromotionType = PercentageDiscount
    /\ shoppingCart.TotalDiscountPromotion # NilPromotion
    /\ lastOp.result # DecimalZero

\* C22: a cart holds the same items whatever the order of the AddProduct calls
\* for distinct product ids was, and CalculateTotal returns the same value
\* whatever the order in which the map hands out the items.
C22_OrderIndependent ==
    /\ \A o1, o2 \in RangeOrders(DOMAIN shoppingCart.Items) :
         CalculateTotal(shoppingCart, o1) = CalculateTotal(shoppingCart, o2)
    /\ \A p1, p2 \in {p \in InputProducts : ValidateProduct(p) = ErrNil} :
         p1.ID # p2.ID
         => AddProduct(AddProduct(shoppingCart, p1, 1), p2, 2)
                = AddProduct(AddProduct(shoppingCart, p2, 2), p1, 1)

\* a cart has two items with totals of their own, one under a promotion, and
\* a cart-wide promotion
C22_Witness ==
    /\ lastOp.op = "CalculateTotal"
    /\ Cardinality(DOMAIN shoppingCart.Items) = 2
    /\ \A id \in DOMAIN shoppingCart.Items :
         AddLine(shoppingCart, DecimalZero, id) # DecimalZero
    /\ \E id, id2 \in DOMAIN shoppingCart.Items :
         AddLine(shoppingCart, DecimalZero, id) # AddLine(shoppingCart, DecimalZero, id2)
    /\ shoppingCart.TotalDiscountPromotion # NilPromotion

\* C23: GetDiscountedPrice returns the price unchanged when the discount is
\* <= 0 or > 100 and price * (100 - discount) / 100 otherwise, zero for a
\* discount of 100; ValidateDiscount is true exactly for 0 <= discount <= 100,
\* so a discount outside that range is rejected by the one and ignored by the
\* other
C23_DiscountedPrice ==
    /\ lastOp.op = "GetDiscountedPrice" =>
         LET p == lastOp.product
             d == p.Discount
         IN /\ (d <= 0 \/ d > 100) => lastOp.result = p.Price
            /\ (d > 0 /\ d <= 100) =>
                 lastOp.result = Div(Mul(p.Price, NewFromInt(100 - d)), NewFromInt(100))
            /\ d = 100 => lastOp.result = DecimalZero
            /\ ~ValidateDiscount(p) => lastOp.result = p.Price
    /\ lastOp.op = "ValidateDiscount" =>
         (lastOp.valid <=> (lastOp.product.Discount >= 0 /\ lastOp.product.Discount <= 100))

C23_Witness ==
    /\ lastOp.op = "GetDiscountedPrice"
    /\ lastOp.product.Discount = 150
    /\ lastOp.product.Price = NewFromInt(10)
    /\ lastOp.result = NewFromInt(10)
    /\ ~ValidateDiscount(lastOp.product)

\* C24: for a Buy1Get1Free promotion CalculatePrice(unitPrice, q) is
\* unitPrice * ceil(q / 2) for every quantity q >= 0, whatever the promotion's
\* discount field holds.
C24_Buy1Get1Free ==
    (/\ lastOp.op = "CalculatePrice"
     /\ lastOp.promotion.PromotionType = Buy1Get1Free
     /\ lastOp.quantity >= 0)
    => lastOp.result = Mul(lastOp.price, NewFromInt((lastOp.quantity + 1) \div 2))

\* C25: CalculatePrice returns zero for every promotion whose kind is neither
\* PercentageDiscount nor Buy1Get1Free, for every price and quantity, so a
\* line item whose product id has such a promotion adds nothing to the total:
\* CalculateTotal returns what it returns for the cart without those items.
C25_OtherKindsZero ==
    LET c == shoppingCart
        other(promotion) ==
            promotion.PromotionType \notin {PercentageDiscount, Buy1Get1Free}
        dead == {id \in DOMAIN c.Items :
                    id \in DOMAIN c.Promotion /\ other(c.Promotion[id])}
        rest == [c EXCEPT !.Items = [id \in DOMAIN c.Items \ dead |-> c.Items[id]]]
    IN /\ \A promotion \in InputPromotions \cup PricedPromotions :
            other(promotion)
            => \A price \in InputPrices, qty \in MinInt64 .. MaxInt64 :
                 CalculatePrice(promotion, price, qty) = DecimalZero
       /\ \A id \in dead : AddLine(c, DecimalZero, id) = DecimalZero
       /\ lastOp.op = "CalculateTotal"
          => \A order \in RangeOrders(DOMAIN rest.Items) :
                lastOp.result = CalculateTotal(rest, order)

\* the total was taken of a cart with two items, one under a promotion of an
\* unknown kind and one without promotion, and it is the line of the second
C25_Witness ==
    /\ lastOp.op = "CalculateTotal"
    /\ \E id, id2 \in DOMAIN shoppingCart.Items :
         /\ id \in DOMAIN shoppingCart.Promotion
         /\ shoppingCart.Promotion[id].PromotionType = "unknown"
         /\ GetDiscountedPrice(shoppingCart.Items[id].Product) # DecimalZero
         /\ shoppingCart.Items[id].Quantity > 0
         /\ id2 \notin DOMAIN shoppingCart.Promotion
         /\ lastOp.result = AddLine(shoppingCart, DecimalZero, id2)
         /\ lastOp.result # DecimalZero
    /\ shoppingCart.TotalDiscountPromotion = NilPromotion

\* C26: no step of CalculatePrice holds a value in binary floating point that
\* differs from the exact one: the float64 the quantity is converted to has
\* the quantity's value.
C26_NoFloatingPoint ==
    (lastOp.op = "CalculatePrice" /\ lastOp.promotion.PromotionType = Buy1Get1Free)
    => Float64(lastOp.quantity) = lastOp.quantity

\* C27: DisplayPrice renders a money value as digits, a point and exactly two
\* digits, an optional minus sign in front, and the number written is the
\* value rounded to the nearest cent (0 gives "0.00", 123.4 gives "123.40");
\* CalculateTotal returns its value with all its places, here 464.3505 for
\* the cart of main, and the rounding to "464.35" is DisplayPrice's.
C27_DisplayTwoDigits ==
    LET digits == {ToString(k) : k \in 0 .. 9}
        DigitOf(ch) == CHOOSE k \in 0 .. 9 : ToString(k) = ch
        t == lastOp.text
        neg == Len(t) > 0 /\ SubSeq(t, 1, 1) = "-"
        body == IF neg THEN SubSeq(t, 2, Len(t)) ELSE t
        n == Len(body)
        whole[i \in 0 .. n - 3] ==
            IF i = 0 THEN 0 ELSE whole[i - 1] * 10 + DigitOf(SubSeq(body, i, i))
        cents == whole[n - 3] * 100 + DigitOf(SubSeq(body, n - 1, n - 1)) * 10
                    + DigitOf(SubSeq(body, n, n))
        e == Min(lastOp.price.exp, -2)
        unit == 10 ^ (-2 - e)
    IN /\ lastOp.op = "DisplayPrice"
          => /\ n >= 4
             /\ SubSeq(body, n - 2, n - 2) = "."
             /\ \A i \in (1 .. n) \ {n - 2} : SubSeq(body, i, i) \in digits
             /\ 2 * Abs(Rescale(lastOp.price, e) - (IF neg THEN -cents ELSE cents) * unit)
                    <= unit
             /\ neg => lastOp.price.coef < 0
       /\ DisplayPrice(DecimalZero) = "0.00"
       /\ DisplayPrice(DecimalNew(1234, -1)) = "123.40"
       /\ lastOp.op = "CalculateTotal"
          => /\ lastOp.result = DecimalNew(4643505, -4)
             /\ lastOp.result # Round(lastOp.result, 2)
             /\ DisplayPrice(lastOp.result) = "464.35"

\* DisplayPrice was given the total of the cart of main, which has four
\* places, and rendered it with two
C27_Witness ==
    /\ lastOp.op = "DisplayPrice"
    /\ lastOp.price = DecimalNew(4643505, -4)
    /\ lastOp.text = "464.35"

\* C28: the per-product promotion map never holds a promotion of kind
\* TotalDiscount, every entry of it is stored under its own product id, and
\* the cart-wide slot is empty or holds a promotion of kind TotalDiscount; so
\* no turn of CalculateTotal's loop hands a TotalDiscount promotion to
\* CalculatePrice, and the total is the sum of the lines, which the cart-wide
\* promotion has no part in, with the cart-wide discount applied to it once.
C28_TotalDiscountApart ==
    LET c == shoppingCart
        slot == c.TotalDiscountPromotion
        noSlot == [c EXCEPT !.TotalDiscountPromotion = NilPromotion]
    IN /\ \A pid \in DOMAIN c.Promotion :
            /\ c.Promotion[pid].PromotionType # TotalDiscount
            /\ c.Promotion[pid].ProductID = pid
       /\ slot # NilPromotion => slot.PromotionType = TotalDiscount
       /\ lastOp.op = "CalculateTotal"
          => \A order \in RangeOrders(DOMAIN c.Items) :
               LET lines == CalculateTotal(noSlot, order)
               IN /\ lines = SumLines(c, DecimalZero, order)
                  /\ lastOp.result =
                       IF slot = NilPromotion THEN lines
                       ELSE Div(Mul(lines, NewFromInt(100 - slot.Discount)), hundred)

\* the total was taken of a cart with a cart-wide promotion that names the
\* product of an item, which has no promotion of its own: the line is at the
\* product's price and the cart-wide discount is taken off once
C28_Witness ==
    /\ lastOp.op = "CalculateTotal"
    /\ shoppingCart.TotalDiscountPromotion # NilPromotion
    /\ shoppingCart.TotalDiscountPromotion.Discount = 20
    /\ DOMAIN shoppingCart.Items = {"A"}
    /\ shoppingCart.TotalDiscountPromotion.ProductID = "A"
    /\ shoppingCart.Promotion = EmptyMap
    /\ shoppingCart.Items["A"].Product.Price = NewFromInt(10)
    /\ shoppingCart.Items["A"].Quantity = 2
    /\ lastOp.result = NewFromInt(16)

\* C29: a call of AddPromotion or CalculateTotal leaves every line item, its
\* product with price and discount and its quantity, as it was; a call of
\* CalculateTotal leaves the promotions as they were too; and a call of
\* CalculateTotal that follows another with nothing in between returns the
\* value the first returned.
C29_NoMutation ==
    [][/\ lastOp'.op \in {"AddPromotion", "CalculateTotal"}
          => shoppingCart'.Items = shoppingCart.Items
       /\ lastOp'.op = "CalculateTotal"
          => /\ shoppingCart'.Promotion = shoppingCart.Promotion
             /\ shoppingCart'.TotalDiscountPromotion = shoppingCart.TotalDiscountPromotion
             /\ lastOp.op = "CalculateTotal" => lastOp'.result = lastOp.result]_vars

\* the total was taken of a cart whose item has a product on sale, under a
\* promotion, with a cart-wide promotion: the product still has its list
\* price and its discount, the quantity is the one added
C29_Witness ==
    /\ lastOp.op = "CalculateTotal"
    /\ DOMAIN shoppingCart.Items = {"A"}
    /\ shoppingCart.Items["A"].Product.Price = NewFromInt(20)
    /\ shoppingCart.Items["A"].Product.Discount = 10
    /\ shoppingCart.Items["A"].Quantity = 1
    /\ "A" \in DOMAIN shoppingCart.Promotion
    /\ shoppingCart.Promotion["A"].PromotionType = Buy1Get1Free
    /\ shoppingCart.TotalDiscountPromotion # NilPromotion
    /\ lastOp.result # NewFromInt(20)
    /\ lastOp.result # DecimalZero

\* C30: percentage arithmetic is exact: for a price and a percentage d in
\* 0 .. 100, the value r that GetDiscountedPrice, the PercentageDiscount
\* branch of CalculatePrice (for each unit) and the cart-wide step of
\* CalculateTotal return satisfies r * 100 = input * (100 - d).
C30_PercentageExact ==
    /\ (lastOp.op = "GetDiscountedPrice" /\ lastOp.product.Discount \in 0 .. 100)
       => LET p == lastOp.product
              scale == NewFromInt(100 - p.Discount)
              alone == AddProduct(NewCart, [p EXCEPT !.Discount = 0], 1)
              wide == AddPromotion(alone, [ID |-> "", Discount |-> p.Discount,
                                           ProductID |-> "", PromotionType |-> TotalDiscount])
          IN /\ Mul(lastOp.result, hundred) = Mul(p.Price, scale)
             /\ alone # NewCart
                => Mul(CalculateTotal(wide, <<p.ID>>), hundred) = Mul(p.Price, scale)
    /\ (/\ lastOp.op = "CalculatePrice"
        /\ lastOp.promotion.PromotionType = PercentageDiscount
        /\ lastOp.promotion.Discount \in 0 .. 100)
       => Mul(lastOp.result, hundred)
            = Mul(Mul(lastOp.price, NewFromInt(100 - lastOp.promotion.Discount)),
                  NewFromInt(lastOp.quantity))

\* C31: a promotion of a kind other than TotalDiscount that names no product
\* is stored under the empty product id, AddPromotion having no error to
\* return; no item of the cart has the empty id, so CalculateTotal returns
\* what it returns for the cart without that promotion.
C31_EmptyKeyPromotion ==
    LET c == shoppingCart
        without == [c EXCEPT !.Promotion =
                      [pid \in DOMAIN c.Promotion \ {""} |-> c.Promotion[pid]]]
    IN /\ (/\ lastOp.op = "AddPromotion"
           /\ lastOp.promotion.ProductID = ""
           /\ lastOp.promotion.PromotionType # TotalDiscount)
          => /\ "" \in DOMAIN c.Promotion
             /\ c.Promotion[""].ProductID = ""
             /\ lastOp.err = ErrNil
       /\ "" \in DOMAIN c.Promotion => c.Promotion[""] = ledger.promo[""]
       /\ \A id \in DOMAIN c.Items : TrimSpace(id) # ""
       /\ \A order \in RangeOrders(DOMAIN c.Items) :
            CalculateTotal(c, order) = CalculateTotal(without, order)
       /\ lastOp.op = "CalculateTotal"
          => \A order \in RangeOrders(DOMAIN c.Items) :
               lastOp.result = CalculateTotal(without, order)

\* the total was taken of a cart with an item at its full price and a
\* percentage promotion under the empty product id
C31_Witness ==
    /\ lastOp.op = "CalculateTotal"
    /\ "" \in DOMAIN shoppingCart.Promotion
    /\ shoppingCart.Promotion[""].PromotionType = PercentageDiscount
    /\ DOMAIN shoppingCart.Items = {"A"}
    /\ shoppingCart.Items["A"].Product.Price = NewFromInt(10)
    /\ shoppingCart.Items["A"].Quantity = 2
    /\ lastOp.result = NewFromInt(20)

\* C36: AddProduct reports one violated rule, the first in the order product
\* id, price, discount, quantity: a call with an invalid product and a
\* quantity that is not positive returns the "invalid product: ..." error, and
\* a product with an empty id and a negative price the error of the empty id.
C36_ErrorPrecedence ==
    lastOp.op = "AddProduct"
    => LET p == lastOp.product
           idBad == TrimSpace(p.ID) = ""
           priceBad == p.Price.coef < 0
           discountBad == p.Discount < 0 \/ p.Discount > 100
           quantityBad == lastOp.quantity <= 0
       IN lastOp.err =
            IF idBad THEN "invalid product: product ID cannot be empty"
            ELSE IF priceBad THEN "invalid product: product price cannot be negative"
            ELSE IF discountBad
            THEN "invalid product: product discount must be between 0 and 100"
            ELSE IF quantityBad
            THEN "invalid quantity: quantity must be a positive integer"
            ELSE ErrNil

\* AddProduct was called with a product that has an empty id, a negative
\* price and a discount above 100, and with a negative quantity
C36_Witness ==
    /\ lastOp.op = "AddProduct"
    /\ lastOp.product.ID = ""
    /\ lastOp.product.Price = NewFromInt(-10)
    /\ lastOp.product.Discount = 150
    /\ lastOp.quantity = -5
    /\ lastOp.err = "invalid product: product ID cannot be empty"

\* C34: from any cart the total was just taken of, AddProduct followed by
\* AddPromotion leaves the cart that AddPromotion followed by AddProduct
\* leaves, for a promotion of the product's id, of another id or of the whole
\* cart, for products with and without an id and quantities that AddProduct
\* accepts and rejects, and so CalculateTotal returns the same value after
\* either.
C34_PromotionCommutes ==
    lastOp.op = "CalculateTotal" =>
    \A product \in {p \in InputProducts : p.Price.coef >= 0 /\ ValidateDiscount(p)},
       quantity \in {0, 1, MaxInt64}, promotion \in InputPromotions :
        LET first == AddPromotion(AddProduct(shoppingCart, product, quantity), promotion)
            second == AddProduct(AddPromotion(shoppingCart, promotion), product, quantity)
        IN /\ first = second
           /\ (AddProductError(product, quantity) = ErrNil /\ promotion.Discount = 10)
              => \A order \in RangeOrders(DOMAIN first.Items) :
                   CalculateTotal(first, order) = CalculateTotal(second, order)

\* a product was added to a cart that had a promotion for its id and a
\* cart-wide promotion before it had the item
C34_Witness ==
    /\ lastOp.op = "AddProduct"
    /\ lastOp.err = ErrNil
    /\ lastOp.product.ID \in DOMAIN shoppingCart.Promotion
    /\ shoppingCart.Promotion[lastOp.product.ID].PromotionType = PercentageDiscount
    /\ shoppingCart.Items[lastOp.product.ID].Quantity = lastOp.quantity
    /\ shoppingCart.TotalDiscountPromotion # NilPromotion
    /\ nops = 3

\* C35: for a cart whose quantities are all positive, CalculateTotal returns
\* a value that is at least zero and at most the sum over the line items of
\* price * quantity.
C35_TotalBounds ==
    (/\ lastOp.op = "CalculateTotal"
     /\ \A id \in DOMAIN shoppingCart.Items : shoppingCart.Items[id].Quantity > 0)
    => LET c == shoppingCart
           full[S \in SUBSET DOMAIN c.Items] ==
               IF S = {} THEN DecimalZero
               ELSE LET id == CHOOSE x \in S : TRUE
                    IN Add(Mul(c.Items[id].Product.Price, NewFromInt(c.Items[id].Quantity)),
                           full[S \ {id}])
       IN /\ ~LessThan(lastOp.result, DecimalZero)
          /\ ~LessThan(full[DOMAIN c.Items], lastOp.result)

\* C32: no step of GetByID, GetByUserID or Exists, and no step of a call that
\* returns an error other than ErrCartExists, changes the primary store, the
\* user index or a stored cart; a Create, Update or Delete that is about to
\* return such an error has the store and the index as they were when it took
\* the lock.
C32_ReadsAndErrorsChangeNothing ==
    [][\A g \in Goroutines :
         LET stays == /\ carts' = carts
                      /\ userCarts' = userCarts
                      /\ \A id \in DOMAIN carts :
                           heap'[carts[id].Cart] = heap[carts[id].Cart]
             failed(r) == r.err \notin {ErrNil, ErrCartExists}
         IN /\ (pc'[g] # pc[g] /\ (call[g].op \in Readers \/ call'[g].op \in Readers))
               => stays
            /\ (pc'[g] # pc[g] /\ (failed(res[g]) \/ failed(res'[g]))) => stays
            /\ (pc'[g] = "unlock" /\ call'[g].op \in Writers /\ failed(res'[g]))
               => Maps' = snap'[g]]_vars

\* a Delete of an absent id has returned ErrCartNotFound from a repository
\* that holds a cart
C32_Witness ==
    \E g \in Goroutines :
        /\ pc[g] = "done" /\ call[g].op = "Delete"
        /\ res[g] = ErrRes(ErrCartNotFound)
        /\ call[g].cartID = "non_existent"
        /\ Cardinality(DOMAIN carts) = 1
        /\ Cardinality(DOMAIN userCarts) = 1

\* C33: a step of Create(user), of Update(id) or of Delete(id) changes the
\* record and the index entry of one user only, the one the call names or the
\* owner of id: every other user's index entry, records, stored carts and
\* timestamps are after the step what they were before, and no record of
\* another user appears.  The index entry Delete(id) removes is the one that
\* points to id, and no other entry does.
C33_OnlyOneUser ==
    [][\A g \in Goroutines :
         (pc'[g] # pc[g] /\ call[g].op \in Writers)
         => LET id == call[g].cartID
                u == IF call[g].op = "Create" THEN call[g].userID
                     ELSE IF pc[g] = "index" THEN loc[g]
                     ELSE IF id \in DOMAIN carts THEN carts[id].UserID
                     ELSE ""
            IN /\ \A v \in AllUserIDs \ {u} :
                    /\ v \in DOMAIN userCarts <=> v \in DOMAIN userCarts'
                    /\ v \in DOMAIN userCarts => userCarts'[v] = userCarts[v]
               /\ \A c \in DOMAIN carts :
                    carts[c].UserID # u
                    => /\ c \in DOMAIN carts'
                       /\ carts'[c] = carts[c]
                       /\ heap'[carts[c].Cart] = heap[carts[c].Cart]
               /\ \A c \in DOMAIN carts' : carts'[c].UserID # u => c \in DOMAIN carts
               /\ (call[g].op = "Delete" /\ pc[g] = "index")
                  => /\ userCarts[u] = id
                     /\ u \notin DOMAIN userCarts'
                     /\ \A v \in DOMAIN userCarts : userCarts[v] = id => v = u]_vars

\* a Delete has removed the cart and the index entry of one of two users; the
\* other user's are there
C33_Witness ==
    \E g \in Goroutines :
        /\ call[g].op = "Delete"
        /\ pc[g] = "unlock"
        /\ res[g].err = ErrNil
        /\ Cardinality(DOMAIN snap[g].carts) = 2
        /\ Cardinality(DOMAIN carts) = 1
        /\ Cardinality(DOMAIN userCarts) = 1
        /\ \A v \in DOMAIN userCarts : carts[userCarts[v]] = snap[g].carts[userCarts[v]]

\* C37: MergeSort and SelectSort return, for every slice of integers, the
\* empty one, those of one element and those with duplicates among them, the
\* same slice: one in non-decreasing order with every integer as often as the
\* input has it.
C37_SortsAgree ==
    lastOp.op \in {"MergeSort", "SelectSort"}
    => LET nums == lastOp.nums
           sorted == lastOp.sorted
           count(seq, v) == Cardinality({i \in DOMAIN seq : seq[i] = v})
       IN /\ Len(sorted) = Len(nums)
          /\ \A i \in 1 .. Len(sorted) - 1 : sorted[i] <= sorted[i + 1]
          /\ \A v \in SortValues : count(sorted, v) = count(nums, v)
          /\ MergeSort(nums) = sorted
          /\ SelectSort(nums) = sorted

\* MergeSort has sorted a slice of four elements, two of them equal, that was
\* not in order
C37_Witness ==
    /\ lastOp.op = "MergeSort"
    /\ lastOp.nums = <<2, -1, 2, 0>>
    /\ lastOp.sorted = <<-1, 0, 2, 2>>

====
